---- MODULE Spec2Model ----
(***************************************************************************)
(* Boot-orchestration sequencer of the Zwift PC remote control API.        *)
(*                                                                         *)
(*   - PCControlService.full_start_sequence / wake_only_sequence           *)
(*     (api/services/pc_control.py): the canned multi-stage sequences.     *)
(*   - TaskManager (api/services/task_manager.py): the task map, its       *)
(*     lifecycle operations and the background runs run_start_sequence /   *)
(*     run_wake_sequence, scheduled by the control router.                 *)
(*   - The control router's endpoints POST start, POST wake and            *)
(*     GET tasks/{task_id} (api/routers/control.py).                       *)
(*   - The polling stages wait_for_network, wait_for_ssh, wait_for_desktop *)
(*     and wait_for_zwift (api/utils/network.py, api/utils/ssh_client.py,  *)
(*     api/services/pc_control.py).                                        *)
(*   - StatusChecker.check_pc_online and check_full_status                 *)
(*     (api/services/status_checker.py).                                   *)
(*   - The single-command stages kill_zwift_processes, stop_sunshine,      *)
(*     start_sunshine, launch_zwift, activate_zwift_launcher, launch_sauce,*)
(*     set_process_priorities and shutdown_pc                              *)
(*     (api/services/pc_control.py), with the remote scripts of            *)
(*     stop_sunshine and start_sunshine.                                   *)
(*   - The control router's endpoints POST stop, POST sunshine/stop,       *)
(*     POST sunshine/start and POST sunshine/toggle.                       *)
(*                                                                         *)
(* A stage is an awaited coroutine of PCControlService.  The sequences     *)
(* see a stage only through its interface: it is invoked, and later it     *)
(* returns True, returns False, or raises.  The three outcomes are the     *)
(* inputs of the model (the test-suite drives the sequences the same way,  *)
(* by replacing the stage methods).  Code between two awaits runs without  *)
(* interleaving (one asyncio event loop), so it is one action.             *)
(***************************************************************************)
EXTENDS Integers, Sequences, FiniteSets, TLC

VARIABLES
    seq,      \* the invocation of a canned PCControlService sequence
    tasks,    \* TaskManager.tasks: task id -> Task
    runs,     \* task id -> the background run scheduled for it
    nextId,   \* number of task ids handed out so far (uuid4: always fresh)
    direct,   \* number of TaskManager operations called directly so far
    http,     \* the responses the control router has sent
    returned, \* task id -> the object create_task returned for it
    poll,     \* the invocation of a polling stage
    chk,      \* the invocation of a StatusChecker operation
    call,     \* the invocation of a single-command stage of PCControlService
    remote,   \* the Sunshine service on the PC, as the remote scripts see it
    ctl       \* the POST stop / POST sunshine request being answered

vars == <<seq, tasks, runs, nextId, direct, http, returned, poll, chk, call,
          remote, ctl>>

-----------------------------------------------------------------------------
(* Bounds *)

MaxTasks == 2      \* tasks created in one behaviour
MaxDirect == 1     \* direct calls of TaskManager operations in one behaviour
MaxTimeout == 4    \* largest configured stage timeout, in seconds
MaxProbeSeconds == 1   \* longest time one probe of a polling stage takes

-----------------------------------------------------------------------------
(* Optional[T]: None is the empty tuple, a value v is <<v>> *)

None == <<>>
Some(v) == <<v>>

(* datetime.utcnow(): the instants are not told apart, a timestamp field is
   either unset or holds the instant at which it was written *)
utcnow == "utcnow"

(* What an awaited stage can do *)
RETURN_TRUE == "true"
RETURN_FALSE == "false"
RAISE == "raise"

(* str(e) of the exceptions a stage raises *)
ExceptionTexts == {"Connection lost", ""}

-----------------------------------------------------------------------------
(* PCControlService.full_start_sequence and wake_only_sequence             *)

(* The result dict of full_start_sequence as first built: every entry False *)
FullStartResults ==
    [k \in {"wol_sent", "network_available", "ssh_available", "desktop_loaded",
            "sunshine_stopped", "zwift_killed", "zwift_launched",
            "sauce_launched", "zwift_running", "priorities_set", "success"}
        |-> FALSE]

(* The result dict of wake_only_sequence as first built *)
WakeOnlyResults ==
    [k \in {"wol_sent", "network_available", "ssh_available", "success"}
        |-> FALSE]

(* key = "" : the stage's return value is not stored (activate_zwift_launcher).
   gate     : "if not results[key]: return results" follows the stage.        *)
FullStartSteps_NoLaunchGate == <<
    [stage |-> "wake_pc",                 key |-> "wol_sent",          gate |-> TRUE],
    [stage |-> "wait_for_network",        key |-> "network_available", gate |-> TRUE],
    [stage |-> "wait_for_ssh",            key |-> "ssh_available",     gate |-> TRUE],
    [stage |-> "wait_for_desktop",        key |-> "desktop_loaded",    gate |-> TRUE],
    [stage |-> "stop_sunshine",           key |-> "sunshine_stopped",  gate |-> FALSE],
    [stage |-> "kill_zwift_processes",    key |-> "zwift_killed",      gate |-> FALSE],
    [stage |-> "launch_zwift",            key |-> "zwift_launched",    gate |-> FALSE],
    [stage |-> "activate_zwift_launcher", key |-> "",                  gate |-> FALSE],
    [stage |-> "launch_sauce",            key |-> "sauce_launched",    gate |-> FALSE],
    [stage |-> "wait_for_zwift",          key |-> "zwift_running",     gate |-> TRUE],
    [stage |-> "set_process_priorities",  key |-> "priorities_set",    gate |-> FALSE] >>

FullStartSteps_SunshineGates == <<
    [stage |-> "wake_pc",                 key |-> "wol_sent",          gate |-> TRUE],
    [stage |-> "wait_for_network",        key |-> "network_available", gate |-> TRUE],
    [stage |-> "wait_for_ssh",            key |-> "ssh_available",     gate |-> TRUE],
    [stage |-> "wait_for_desktop",        key |-> "desktop_loaded",    gate |-> TRUE],
    [stage |-> "stop_sunshine",           key |-> "sunshine_stopped",  gate |-> TRUE],
    [stage |-> "kill_zwift_processes",    key |-> "zwift_killed",      gate |-> FALSE],
    [stage |-> "launch_zwift",            key |-> "zwift_launched",    gate |-> TRUE],
    [stage |-> "activate_zwift_launcher", key |-> "",                  gate |-> FALSE],
    [stage |-> "launch_sauce",            key |-> "sauce_launched",    gate |-> FALSE],
    [stage |-> "wait_for_zwift",          key |-> "zwift_running",     gate |-> TRUE],
    [stage |-> "set_process_priorities",  key |-> "priorities_set",    gate |-> FALSE] >>

FullStartSteps_SauceFirst == <<
    [stage |-> "wake_pc",                 key |-> "wol_sent",          gate |-> TRUE],
    [stage |-> "wait_for_network",        key |-> "network_available", gate |-> TRUE],
    [stage |-> "wait_for_ssh",            key |-> "ssh_available",     gate |-> TRUE],
    [stage |-> "wait_for_desktop",        key |-> "desktop_loaded",    gate |-> TRUE],
    [stage |-> "stop_sunshine",           key |-> "sunshine_stopped",  gate |-> FALSE],
    [stage |-> "kill_zwift_processes",    key |-> "zwift_killed",      gate |-> FALSE],
    [stage |-> "launch_zwift",            key |-> "zwift_launched",    gate |-> TRUE],
    [stage |-> "launch_sauce",            key |-> "sauce_launched",    gate |-> FALSE],
    [stage |-> "activate_zwift_launcher", key |-> "",                  gate |-> FALSE],
    [stage |-> "wait_for_zwift",          key |-> "zwift_running",     gate |-> TRUE],
    [stage |-> "set_process_priorities",  key |-> "priorities_set",    gate |-> FALSE] >>

FullStartSteps_NoDesktopGate == <<
    [stage |-> "wake_pc",                 key |-> "wol_sent",          gate |-> TRUE],
    [stage |-> "wait_for_network",        key |-> "network_available", gate |-> TRUE],
    [stage |-> "wait_for_ssh",            key |-> "ssh_available",     gate |-> TRUE],
    [stage |-> "wait_for_desktop",        key |-> "desktop_loaded",    gate |-> FALSE],
    [stage |-> "stop_sunshine",           key |-> "sunshine_stopped",  gate |-> FALSE],
    [stage |-> "kill_zwift_processes",    key |-> "zwift_killed",      gate |-> FALSE],
    [stage |-> "launch_zwift",            key |-> "zwift_launched",    gate |-> TRUE],
    [stage |-> "activate_zwift_launcher", key |-> "",                  gate |-> FALSE],
    [stage |-> "launch_sauce",            key |-> "sauce_launched",    gate |-> FALSE],
    [stage |-> "wait_for_zwift",          key |-> "zwift_running",     gate |-> TRUE],
    [stage |-> "set_process_priorities",  key |-> "priorities_set",    gate |-> FALSE] >>

(* The body of full_start_sequence's try block, statement by statement *)
FullStartSteps == <<
    [stage |-> "wake_pc",                 key |-> "wol_sent",          gate |-> TRUE],
    [stage |-> "wait_for_network",        key |-> "network_available", gate |-> TRUE],
    [stage |-> "wait_for_ssh",            key |-> "ssh_available",     gate |-> TRUE],
    [stage |-> "wait_for_desktop",        key |-> "desktop_loaded",    gate |-> TRUE],
    [stage |-> "stop_sunshine",           key |-> "sunshine_stopped",  gate |-> FALSE],
    [stage |-> "kill_zwift_processes",    key |-> "zwift_killed",      gate |-> FALSE],
    [stage |-> "launch_zwift",            key |-> "zwift_launched",    gate |-> TRUE],
    [stage |-> "activate_zwift_launcher", key |-> "",                  gate |-> FALSE],
    [stage |-> "launch_sauce",            key |-> "sauce_launched",    gate |-> FALSE],
    [stage |-> "wait_for_zwift",          key |-> "zwift_running",     gate |-> TRUE],
    [stage |-> "set_process_priorities",  key |-> "priorities_set",    gate |-> FALSE] >>

WakeOnlySteps_NoNetworkGate == <<
    [stage |-> "wake_pc",          key |-> "wol_sent",          gate |-> TRUE],
    [stage |-> "wait_for_network", key |-> "network_available", gate |-> FALSE],
    [stage |-> "wait_for_ssh",     key |-> "ssh_available",     gate |-> TRUE] >>

(* The body of wake_only_sequence's try block *)
WakeOnlySteps == <<
    [stage |-> "wake_pc",          key |-> "wol_sent",          gate |-> TRUE],
    [stage |-> "wait_for_network", key |-> "network_available", gate |-> TRUE],
    [stage |-> "wait_for_ssh",     key |-> "ssh_available",     gate |-> TRUE] >>

SequenceKinds == {"full_start_sequence", "wake_only_sequence"}

StepsOf(kind) ==
    IF kind = "full_start_sequence" THEN FullStartSteps ELSE WakeOnlySteps

InitialResults(kind) ==
    IF kind = "full_start_sequence" THEN FullStartResults ELSE WakeOnlyResults

(* No sequence has been called yet *)
SeqIdle ==
    [kind |-> "none", pc |-> "idle", idx |-> 0, results |-> <<>>,
     calls |-> <<>>, outs |-> <<>>, ret |-> "none"]

(* "results[key] = await self.stage()": the return value b is stored under
   the step's key; the value of activate_zwift_launcher is dropped *)
StoreResult(results, step, b) ==
    IF step.key = "" THEN results ELSE [results EXCEPT ![step.key] = b]

(* "except Exception as e: logger.error(...); return results" *)
SeqOnException_Propagates(s) ==
    [s EXCEPT !.pc = "done", !.ret = "exception"]

SeqOnException(s) ==
    [s EXCEPT !.pc = "done", !.ret = "results"]

(* The statements after a stage returned b, up to the next await or return *)
SeqAfterReturn(s, b) ==
    LET steps == StepsOf(s.kind)
        step  == steps[s.idx]
        res   == StoreResult(s.results, step, b)
    IN  IF step.gate /\ ~b
        THEN [s EXCEPT !.results = res, !.pc = "done", !.ret = "results"]
        ELSE IF s.idx = Len(steps)
        THEN [s EXCEPT !.results = [res EXCEPT !["success"] = TRUE],
                       !.pc = "done", !.ret = "results"]
        ELSE [s EXCEPT !.results = res, !.idx = s.idx + 1, !.pc = "ready"]

(* A caller invokes full_start_sequence() or wake_only_sequence(): the result
   dict is built and the first stage is about to be awaited *)
SeqStart(kind) ==
    /\ seq.pc = "idle"
    /\ seq' = [kind |-> kind, pc |-> "ready", idx |-> 1,
               results |-> InitialResults(kind),
               calls |-> <<>>, outs |-> <<>>, ret |-> "none"]
    /\ UNCHANGED <<tasks, runs, nextId, direct, http, returned, poll, chk, call, remote, ctl>>

(* "await self.<stage>()": the stage is invoked *)
SeqCall ==
    /\ seq.pc = "ready"
    /\ seq' = [seq EXCEPT !.pc = "awaiting",
                          !.calls = Append(@, StepsOf(seq.kind)[seq.idx].stage)]
    /\ UNCHANGED <<tasks, runs, nextId, direct, http, returned, poll, chk, call, remote, ctl>>

(* The awaited stage returns a boolean *)
SeqReturn(b) ==
    /\ seq.pc = "awaiting"
    /\ seq' = SeqAfterReturn(
                 [seq EXCEPT !.outs = Append(@, IF b THEN RETURN_TRUE ELSE RETURN_FALSE)], b)
    /\ UNCHANGED <<tasks, runs, nextId, direct, http, returned, poll, chk, call, remote, ctl>>

(* The awaited stage raises *)
SeqRaise ==
    /\ seq.pc = "awaiting"
    /\ seq' = SeqOnException([seq EXCEPT !.outs = Append(@, RAISE)])
    /\ UNCHANGED <<tasks, runs, nextId, direct, http, returned, poll, chk, call, remote, ctl>>

-----------------------------------------------------------------------------
(* api/models.py: TaskStatus, TaskProgress, Task                            *)

PENDING == "pending"
RUNNING == "running"
COMPLETED == "completed"
FAILED == "failed"

TaskProgress(step, step_number, total_steps) ==
    [current_step |-> step, step_number |-> step_number,
     total_steps |-> total_steps, details |-> None]

(* Task(task_id=..., status=..., task_type=...): the other fields take their
   defaults, created_at the time of construction *)
Task(task_id, status, task_type, t) ==
    [task_id |-> task_id, status |-> status, task_type |-> task_type,
     progress |-> None, error |-> None,
     created_at |-> t, started_at |-> None, completed_at |-> None]

-----------------------------------------------------------------------------
(* TaskManager: operations on the task map ts.  t is datetime.utcnow().     *)

create_task_Replaces(ts, task_id, task_type, t) ==
    task_id :> Task(task_id, PENDING, task_type, t)

create_task(ts, task_id, task_type, t) ==
    (task_id :> Task(task_id, PENDING, task_type, t)) @@ ts

(* self.tasks.get(task_id): None for an unknown id *)
(* "return task" of create_task: the Task object just stored under task_id
   itself. A Python object is known by its identity; the map holds one object
   per key and never replaces it, so the key stands for the identity *)
Returned(task_id) == [ref |-> task_id]

(* Reading the attributes of a Task object through a reference to it *)
Deref(ts, object) == ts[object.ref]

get_task(ts, task_id) ==
    IF task_id \in DOMAIN ts THEN Some(ts[task_id]) ELSE None

update_task_progress_Shared(ts, task_id, step, step_number, total_steps) ==
    [id \in DOMAIN ts |->
        [ts[id] EXCEPT !.progress =
            Some(TaskProgress(step, step_number, total_steps))]]

update_task_progress(ts, task_id, step, step_number, total_steps) ==
    IF task_id \in DOMAIN ts
    THEN [ts EXCEPT ![task_id].progress =
                        Some(TaskProgress(step, step_number, total_steps))]
    ELSE ts

mark_task_running(ts, task_id, t) ==
    IF task_id \in DOMAIN ts
    THEN [ts EXCEPT ![task_id].status = RUNNING,
                    ![task_id].started_at = Some(t)]
    ELSE ts

mark_task_completed(ts, task_id, t) ==
    IF task_id \in DOMAIN ts
    THEN [ts EXCEPT ![task_id].status = COMPLETED,
                    ![task_id].completed_at = Some(t)]
    ELSE ts

mark_task_failed_NoStamp(ts, task_id, error, t) ==
    IF task_id \in DOMAIN ts
    THEN [ts EXCEPT ![task_id].status = FAILED,
                    ![task_id].error = Some(error)]
    ELSE ts

mark_task_failed(ts, task_id, error, t) ==
    IF task_id \in DOMAIN ts
    THEN [ts EXCEPT ![task_id].status = FAILED,
                    ![task_id].completed_at = Some(t),
                    ![task_id].error = Some(error)]
    ELSE ts

-----------------------------------------------------------------------------
(* TaskManager.run_start_sequence and run_wake_sequence                     *)

StartTotalSteps == 9
WakeTotalSteps == 3

(* error = "" : no "if not <result>: mark_task_failed(...); return" follows
   the stage, its return value is dropped *)
StartRunSteps_LaunchErrorGeneric == <<
    [stage |-> "wake_pc",          label |-> "Sending Wake-on-LAN packet",
     number |-> 1, gate |-> TRUE,  error |-> "Failed to send WoL packet"],
    [stage |-> "wait_for_network", label |-> "Waiting for PC to respond to network",
     number |-> 2, gate |-> TRUE,  error |-> "PC did not respond to network"],
    [stage |-> "wait_for_ssh",     label |-> "Waiting for SSH to become available",
     number |-> 3, gate |-> TRUE,  error |-> "SSH did not become available"],
    [stage |-> "wait_for_desktop", label |-> "Waiting for Windows desktop to load",
     number |-> 4, gate |-> TRUE,  error |-> "Windows desktop did not load"],
    [stage |-> "stop_sunshine",    label |-> "Stopping Sunshine service",
     number |-> 5, gate |-> FALSE, error |-> ""],
    [stage |-> "launch_zwift",     label |-> "Launching Zwift application",
     number |-> 6, gate |-> TRUE,  error |-> "Windows desktop did not load"],
    [stage |-> "activate_zwift_launcher", label |-> "Activating Zwift launcher",
     number |-> 6, gate |-> FALSE, error |-> ""],
    [stage |-> "launch_sauce",     label |-> "Launching Sauce for Zwift",
     number |-> 7, gate |-> FALSE, error |-> ""],
    [stage |-> "wait_for_zwift",   label |-> "Waiting for Zwift to start",
     number |-> 8, gate |-> TRUE,  error |-> "Zwift did not start"],
    [stage |-> "set_process_priorities", label |-> "Setting process priorities",
     number |-> 9, gate |-> FALSE, error |-> ""] >>

(* The body of run_start_sequence's try block after mark_task_running *)
StartRunSteps == <<
    [stage |-> "wake_pc",          label |-> "Sending Wake-on-LAN packet",
     number |-> 1, gate |-> TRUE,  error |-> "Failed to send WoL packet"],
    [stage |-> "wait_for_network", label |-> "Waiting for PC to respond to network",
     number |-> 2, gate |-> TRUE,  error |-> "PC did not respond to network"],
    [stage |-> "wait_for_ssh",     label |-> "Waiting for SSH to become available",
     number |-> 3, gate |-> TRUE,  error |-> "SSH did not become available"],
    [stage |-> "wait_for_desktop", label |-> "Waiting for Windows desktop to load",
     number |-> 4, gate |-> TRUE,  error |-> "Windows desktop did not load"],
    [stage |-> "stop_sunshine",    label |-> "Stopping Sunshine service",
     number |-> 5, gate |-> FALSE, error |-> ""],
    [stage |-> "launch_zwift",     label |-> "Launching Zwift application",
     number |-> 6, gate |-> TRUE,  error |-> "Failed to launch Zwift"],
    [stage |-> "activate_zwift_launcher", label |-> "Activating Zwift launcher",
     number |-> 6, gate |-> FALSE, error |-> ""],
    [stage |-> "launch_sauce",     label |-> "Launching Sauce for Zwift",
     number |-> 7, gate |-> FALSE, error |-> ""],
    [stage |-> "wait_for_zwift",   label |-> "Waiting for Zwift to start",
     number |-> 8, gate |-> TRUE,  error |-> "Zwift did not start"],
    [stage |-> "set_process_priorities", label |-> "Setting process priorities",
     number |-> 9, gate |-> FALSE, error |-> ""] >>

(* The body of run_wake_sequence's try block after mark_task_running *)
WakeRunSteps == <<
    [stage |-> "wake_pc",          label |-> "Sending Wake-on-LAN packet",
     number |-> 1, gate |-> TRUE,  error |-> "Failed to send WoL packet"],
    [stage |-> "wait_for_network", label |-> "Waiting for PC to respond to network",
     number |-> 2, gate |-> TRUE,  error |-> "PC did not respond to network"],
    [stage |-> "wait_for_ssh",     label |-> "Waiting for SSH to become available",
     number |-> 3, gate |-> TRUE,  error |-> "SSH did not become available"] >>

TaskTypes == {"start", "wake"}

RunStepsOf(task_type) ==
    IF task_type = "start" THEN StartRunSteps ELSE WakeRunSteps

TotalStepsOf(task_type) ==
    IF task_type = "start" THEN StartTotalSteps ELSE WakeTotalSteps

(* What the run keeps of the value b returned by a stage: a gating stage's
   value is bound and tested ("wol_sent = await ..."; "if not wol_sent"), any
   other stage's value is dropped ("await self.pc_control.stop_sunshine()") *)
Kept(step, b) ==
    IF step.gate THEN (IF b THEN RETURN_TRUE ELSE RETURN_FALSE) ELSE "dropped"

(* background_tasks.add_task(task_manager.run_<type>_sequence, task_id).
   calls: the stages invoked so far; outs: what each of them did, as far as the
   run keeps it; log: the progress update and the stage call of the step the
   run is in, in program order; exc: str(e) of the exception caught; ret: how the run ended *)
ScheduledRun_Inline(task_type) ==
    [type |-> task_type, pc |-> "awaiting", idx |-> 1,
     calls |-> <<"wake_pc">>, outs |-> <<>>, log |-> <<>>, exc |-> None,
     ret |-> "none"]

ScheduledRun(task_type) ==
    [type |-> task_type, pc |-> "scheduled", idx |-> 0,
     calls |-> <<>>, outs |-> <<>>, log |-> <<>>, exc |-> None, ret |-> "none"]

(* The entries of a run's log: a progress record handed to
   update_task_progress, a stage awaited *)
Published(progress) ==
    [ev |-> "update_task_progress", stage |-> "", progress |-> Some(progress)]

Awaited(stage) ==
    [ev |-> "await", stage |-> stage, progress |-> None]

(* "self.update_task_progress(task_id, <label>, <number>, <total>)" followed by
   "await self.pc_control.<stage>()" for step idx of the run *)
PublishAndCall_CallFirst(ts, r, task_id, idx) ==
    LET step == RunStepsOf(r.type)[idx]
        progress == TaskProgress(step.label, step.number, TotalStepsOf(r.type))
    IN  [tasks |-> update_task_progress(ts, task_id, step.label, step.number,
                                        TotalStepsOf(r.type)),
         run   |-> [r EXCEPT !.pc = "awaiting", !.idx = idx,
                             !.calls = Append(@, step.stage),
                             !.log = <<Awaited(step.stage),
                                       Published(progress)>>]]

PublishAndCall_AwaitsFirst(ts, r, task_id, idx) ==
    LET step == RunStepsOf(r.type)[idx]
        progress == TaskProgress(step.label, step.number, TotalStepsOf(r.type))
    IN  [tasks |-> IF idx = 1 THEN ts
                   ELSE update_task_progress(ts, task_id, step.label,
                                             step.number, TotalStepsOf(r.type)),
         run   |-> [r EXCEPT !.pc = "awaiting", !.idx = idx,
                             !.calls = Append(@, step.stage),
                             !.log = <<Awaited(step.stage),
                                       Published(progress)>>]]

PublishAndCall(ts, r, task_id, idx) ==
    LET step == RunStepsOf(r.type)[idx]
        progress == TaskProgress(step.label, step.number, TotalStepsOf(r.type))
    IN  [tasks |-> update_task_progress(ts, task_id, step.label, step.number,
                                        TotalStepsOf(r.type)),
         run   |-> [r EXCEPT !.pc = "awaiting", !.idx = idx,
                             !.calls = Append(@, step.stage),
                             !.log = <<Published(progress),
                                       Awaited(step.stage)>>]]

(* "except Exception as e: ...; self.mark_task_failed(task_id,
   f"Unexpected error: {str(e)}")" *)
RunOnException_Propagates(ts, r, task_id, text, t) ==
    [tasks |-> ts,
     run   |-> [r EXCEPT !.pc = "done", !.outs = Append(@, RAISE), !.exc = Some(text),
                         !.ret = "raised"]]

RunOnException(ts, r, task_id, text, t) ==
    [tasks |-> mark_task_failed(ts, task_id, "Unexpected error: " \o text, t),
     run   |-> [r EXCEPT !.pc = "done", !.outs = Append(@, RAISE), !.exc = Some(text),
                         !.ret = "returned"]]

(* The statements after the awaited stage returned b, up to the next await or
   to the end of the coroutine *)
RunAfterReturn_CompletesEarly(ts, r, task_id, b, t) ==
    LET steps == RunStepsOf(r.type)
        step  == steps[r.idx]
        rr    == [r EXCEPT !.outs = Append(@, Kept(step, b))]
    IN  IF step.gate /\ ~b
        THEN [tasks |-> mark_task_failed(ts, task_id, step.error, t),
              run   |-> [rr EXCEPT !.pc = "done", !.ret = "returned"]]
        ELSE IF r.idx >= Len(steps) - 1
        THEN [tasks |-> mark_task_completed(ts, task_id, t),
              run   |-> [rr EXCEPT !.pc = "done", !.ret = "returned"]]
        ELSE PublishAndCall(ts, rr, task_id, r.idx + 1)

RunAfterReturn_NoReturn(ts, r, task_id, b, t) ==
    LET steps == RunStepsOf(r.type)
        step  == steps[r.idx]
        rr    == [r EXCEPT !.outs = Append(@, Kept(step, b))]
        ts1   == IF step.gate /\ ~b
                 THEN mark_task_failed(ts, task_id, step.error, t)
                 ELSE ts
    IN  IF r.idx = Len(steps)
        THEN [tasks |-> IF step.gate /\ ~b THEN ts1
                        ELSE mark_task_completed(ts, task_id, t),
              run   |-> [rr EXCEPT !.pc = "done", !.ret = "returned"]]
        ELSE PublishAndCall(ts1, rr, task_id, r.idx + 1)

RunAfterReturn(ts, r, task_id, b, t) ==
    LET steps == RunStepsOf(r.type)
        step  == steps[r.idx]
        rr    == [r EXCEPT !.outs = Append(@, Kept(step, b))]
    IN  IF step.gate /\ ~b
        THEN [tasks |-> mark_task_failed(ts, task_id, step.error, t),
              run   |-> [rr EXCEPT !.pc = "done", !.ret = "returned"]]
        ELSE IF r.idx = Len(steps)
        THEN [tasks |-> mark_task_completed(ts, task_id, t),
              run   |-> [rr EXCEPT !.pc = "done", !.ret = "returned"]]
        ELSE PublishAndCall(ts, rr, task_id, r.idx + 1)

(* StartResponse / WakeResponse as the endpoint returns it (HTTP 200) *)
PostResponse(task_type, task_id) ==
    [status_code |-> 200,
     task_id |-> task_id,
     message |-> IF task_type = "start"
                 THEN "Start sequence initiated. Use the task ID to check progress."
                 ELSE "Wake sequence initiated. PC will boot without launching Zwift.",
     estimated_duration_seconds |-> IF task_type = "start" THEN 180 ELSE 60]

(* routers/control.py start_zwift (POST start) and wake_pc (POST wake):
   create_task(type), then add_task(run_<type>_sequence, task.task_id), then
   the response; the background task is started after the response is sent *)
PostRequest(task_type) ==
    /\ nextId < MaxTasks
    /\ nextId' = nextId + 1
    /\ tasks' = create_task(tasks, nextId + 1, task_type, utcnow)
    /\ runs' = ((nextId + 1) :> ScheduledRun(task_type)) @@ runs
    /\ returned' = ((nextId + 1) :> Returned(nextId + 1)) @@ returned
    /\ http' = [http EXCEPT !.post = ((nextId + 1) :>
                                         PostResponse(task_type, nextId + 1)) @@ @]
    /\ UNCHANGED <<seq, direct, poll, chk, call, remote, ctl>>

(* The event loop starts the scheduled coroutine: mark_task_running, the first
   progress update and the first stage call, up to the first await *)
RunBegin(task_id) ==
    /\ task_id \in DOMAIN runs
    /\ runs[task_id].pc = "scheduled"
    /\ LET next == PublishAndCall(mark_task_running(tasks, task_id, utcnow),
                                  runs[task_id], task_id, 1)
       IN  /\ tasks' = next.tasks
           /\ runs' = [runs EXCEPT ![task_id] = next.run]
    /\ UNCHANGED <<seq, nextId, direct, http, returned, poll, chk, call, remote, ctl>>

(* The stage awaited by the run of task_id returns b *)
RunReturn(task_id, b) ==
    /\ task_id \in DOMAIN runs
    /\ runs[task_id].pc = "awaiting"
    /\ LET next == RunAfterReturn(tasks, runs[task_id], task_id, b, utcnow)
       IN  /\ tasks' = next.tasks
           /\ runs' = [runs EXCEPT ![task_id] = next.run]
    /\ UNCHANGED <<seq, nextId, direct, http, returned, poll, chk, call, remote, ctl>>

(* The stage awaited by the run of task_id raises an exception e, str(e) = text *)
RunRaise(task_id, text) ==
    /\ task_id \in DOMAIN runs
    /\ runs[task_id].pc = "awaiting"
    /\ LET next == RunOnException(tasks, runs[task_id], task_id, text, utcnow)
       IN  /\ tasks' = next.tasks
           /\ runs' = [runs EXCEPT ![task_id] = next.run]
    /\ UNCHANGED <<seq, nextId, direct, http, returned, poll, chk, call, remote, ctl>>

TaskIds == 1..MaxTasks

(* A task id that create_task never hands out *)
UnknownId == MaxTasks + 1

(* The ids a caller can pass to a TaskManager operation *)
CallableIds == DOMAIN tasks \cup {UnknownId}

(* routers/control.py get_task_status (GET tasks/{task_id}): 404 when get_task
   finds nothing, else the task; found: the task_id of the task sent *)
get_task_status(ts, task_id) ==
    LET task == get_task(ts, task_id)
    IN  IF task = None
        THEN [status_code |-> 404, asked |-> task_id, found |-> None]
        ELSE [status_code |-> 200, asked |-> task_id,
              found |-> Some(task[1].task_id)]

(* A GET tasks/{task_id} request is served *)
GetTaskStatus(task_id) ==
    /\ task_id \in CallableIds
    /\ http' = [http EXCEPT !.get = Some(get_task_status(tasks, task_id))]
    /\ UNCHANGED <<seq, tasks, runs, nextId, direct, returned, poll, chk, call, remote, ctl>>

(* TaskManager's operations are public methods of the module-level
   task_manager object: below, each is called on its own, outside any run *)
CallCreateTask(task_type) ==
    /\ direct < MaxDirect
    /\ nextId < MaxTasks
    /\ nextId' = nextId + 1
    /\ tasks' = create_task(tasks, nextId + 1, task_type, utcnow)
    /\ returned' = ((nextId + 1) :> Returned(nextId + 1)) @@ returned
    /\ direct' = direct + 1
    /\ UNCHANGED <<seq, runs, http, poll, chk, call, remote, ctl>>

CallUpdateTaskProgress(task_id, step, step_number, total_steps) ==
    /\ direct < MaxDirect
    /\ task_id \in CallableIds
    /\ tasks' = update_task_progress(tasks, task_id, step, step_number, total_steps)
    /\ direct' = direct + 1
    /\ UNCHANGED <<seq, runs, nextId, http, returned, poll, chk, call, remote, ctl>>

CallMarkTaskRunning(task_id) ==
    /\ direct < MaxDirect
    /\ task_id \in CallableIds
    /\ tasks' = mark_task_running(tasks, task_id, utcnow)
    /\ direct' = direct + 1
    /\ UNCHANGED <<seq, runs, nextId, http, returned, poll, chk, call, remote, ctl>>

CallMarkTaskCompleted(task_id) ==
    /\ direct < MaxDirect
    /\ task_id \in CallableIds
    /\ tasks' = mark_task_completed(tasks, task_id, utcnow)
    /\ direct' = direct + 1
    /\ UNCHANGED <<seq, runs, nextId, http, returned, poll, chk, call, remote, ctl>>

CallMarkTaskFailed(task_id, error) ==
    /\ direct < MaxDirect
    /\ task_id \in CallableIds
    /\ tasks' = mark_task_failed(tasks, task_id, error, utcnow)
    /\ direct' = direct + 1
    /\ UNCHANGED <<seq, runs, nextId, http, returned, poll, chk, call, remote, ctl>>

(* run_start_sequence(task_id) / run_wake_sequence(task_id) called for a task
   that has no run in progress *)
CallRunSequence(task_id, task_type) ==
    /\ direct < MaxDirect
    /\ task_id \in DOMAIN tasks
    /\ task_id \in DOMAIN runs => runs[task_id].pc = "done"
    /\ runs' = (task_id :> ScheduledRun(task_type)) @@ runs
    /\ direct' = direct + 1
    /\ UNCHANGED <<seq, tasks, nextId, http, returned, poll, chk, call, remote, ctl>>

-----------------------------------------------------------------------------
(* The polling stages: wait_for_network (utils/network.py wait_for_ping),
   wait_for_ssh (SSHClient.wait_for_availability), wait_for_desktop and
   wait_for_zwift (PCControlService)                                        *)

PollingStages ==
    {"wait_for_network", "wait_for_ssh", "wait_for_desktop", "wait_for_zwift"}

(* "check_interval=2" / "await asyncio.sleep(2)" *)
CheckInterval == 2

(* What one probe of the remote host comes back with: the call raised, or it
   completed with an exit status and an output *)
Replies ==
    {[raised |-> TRUE, rc |-> 0, stdout |-> ""]}
        \cup [raised : {FALSE}, rc : {0, 1}, stdout : {"", "process"}]

(* The test each stage makes of its probe:
   ping_host: True iff the ping process exits 0, False on any exception;
   is_available: True iff connect and conn.run("echo test", check=False) do not
   raise; wait_for_desktop / wait_for_zwift: "return_code == 0 and stdout",
   an exception of execute_powershell is logged *)
ProbeSucceeded_PingIgnoresExit(stage, reply) ==
    CASE stage = "wait_for_network" -> ~reply.raised
      [] stage = "wait_for_ssh"     -> ~reply.raised
      [] OTHER -> ~reply.raised /\ reply.rc = 0 /\ reply.stdout # ""

ProbeSucceeded(stage, reply) ==
    CASE stage = "wait_for_network" -> ~reply.raised /\ reply.rc = 0
      [] stage = "wait_for_ssh"     -> ~reply.raised
      [] OTHER -> ~reply.raised /\ reply.rc = 0 /\ reply.stdout # ""

(* The probe is awaited under a timeout: ping runs with "-W 1",
   execute_powershell wraps conn.run in asyncio.wait_for(..., timeout) after a
   connect with connect_timeout. is_available awaits conn.run("echo test") with
   no timeout at all *)
ProbeIsTimeLimited(stage) == stage # "wait_for_ssh"

PollIdle ==
    [stage |-> "none", pc |-> "idle", timeout |-> 0, elapsed |-> 0,
     probes |-> <<>>, ret |-> "none"]

(* "while <now> - start_time < timeout:" and what follows up to the next
   await: the next probe is started, or the stage returns False *)
LoopTest_Inclusive(p) ==
    IF p.elapsed <= p.timeout
    THEN [p EXCEPT !.pc = "probing",
                   !.probes = Append(@, [at |-> p.elapsed, reply |-> None])]
    ELSE [p EXCEPT !.pc = "done", !.ret = RETURN_FALSE]

LoopTest(p) ==
    IF p.elapsed < p.timeout
    THEN [p EXCEPT !.pc = "probing",
                   !.probes = Append(@, [at |-> p.elapsed, reply |-> None])]
    ELSE [p EXCEPT !.pc = "done", !.ret = RETURN_FALSE]

(* The stage is called: start_time is taken and the loop is entered *)
PollStart(stage, timeout) ==
    /\ poll.pc = "idle"
    /\ poll' = LoopTest([PollIdle EXCEPT !.stage = stage, !.timeout = timeout])
    /\ UNCHANGED <<seq, tasks, runs, nextId, direct, http, returned, chk, call, remote, ctl>>

(* The probe in flight comes back with reply after seconds: return True on
   success, else "await asyncio.sleep(<interval>)" *)
ProbeReturns(reply, seconds) ==
    /\ poll.pc = "probing"
    /\ LET p == [poll EXCEPT !.elapsed = @ + seconds,
                             !.probes[Len(poll.probes)].reply = Some(reply)]
       IN  poll' = IF ProbeSucceeded(poll.stage, reply)
                   THEN [p EXCEPT !.pc = "done", !.ret = RETURN_TRUE]
                   ELSE [p EXCEPT !.pc = "sleeping"]
    /\ UNCHANGED <<seq, tasks, runs, nextId, direct, http, returned, chk, call, remote, ctl>>

(* The host accepts the connection and then never answers: a probe that no
   timeout limits stays awaited *)
ProbeNeverReturns ==
    /\ poll.pc = "probing"
    /\ ~ProbeIsTimeLimited(poll.stage)
    /\ poll' = [poll EXCEPT !.pc = "blocked"]
    /\ UNCHANGED <<seq, tasks, runs, nextId, direct, http, returned, chk, call, remote, ctl>>

(* asyncio.sleep(<interval>) is over: back to the loop test *)
SleepReturns ==
    /\ poll.pc = "sleeping"
    /\ poll' = LoopTest([poll EXCEPT !.elapsed = @ + CheckInterval])
    /\ UNCHANGED <<seq, tasks, runs, nextId, direct, http, returned, chk, call, remote, ctl>>

(* The steps by which a polling stage that has been called goes on *)
PollStep ==
    \/ \E reply \in Replies, seconds \in 0..MaxProbeSeconds :
          ProbeReturns(reply, seconds)
    \/ ProbeNeverReturns
    \/ SleepReturns

NextPoll ==
    \/ \E stage \in PollingStages, timeout \in 0..MaxTimeout :
          PollStart(stage, timeout)
    \/ PollStep

-----------------------------------------------------------------------------
(* StatusChecker (api/services/status_checker.py)                           *)

(* models.py: PCStatus, ZwiftStatus, ServiceStatus, FullStatus. The fields
   that only carry measurements (ip_address, response_time_ms, cpu_usage,
   memory_mb) are left out *)
PCStatus(online, ssh_available) ==
    [online |-> online, ssh_available |-> ssh_available]

ZwiftStatus(running, process_id) ==
    [running |-> running, process_id |-> process_id]

ServiceStatus(name, running, status) ==
    [name |-> name, running |-> running, status |-> status]

FullStatus(pc, zwift, sunshine, obs) ==
    [pc |-> pc, zwift |-> zwift, sunshine |-> sunshine, obs |-> obs]

(* What the remote command of a status check prints *)
StatusOutputs ==
    {"", "{\"Status\": \"Running\"}", "{\"Status\": \"Stopped\"}",
     "{\"Id\": 4242}", "[{\"Id\": 4242}, {\"Id\": 4343}]", "Access is denied"}

(* What execute_powershell comes back with in a status check *)
StatusReplies ==
    {[raised |-> TRUE, rc |-> 0, stdout |-> ""]}
        \cup [raised : {FALSE}, rc : {0, 1}, stdout : StatusOutputs]

(* json.loads on the outputs above: ok = FALSE is JSONDecodeError; object =
   FALSE is a value that is no dict, on which data.get raises AttributeError;
   Id and Status are data.get("Id") and data.get("Status") *)
json_loads(stdout) ==
    CASE stdout = "{\"Status\": \"Running\"}" ->
            [ok |-> TRUE, object |-> TRUE, Id |-> None, Status |-> Some("Running")]
      [] stdout = "{\"Status\": \"Stopped\"}" ->
            [ok |-> TRUE, object |-> TRUE, Id |-> None, Status |-> Some("Stopped")]
      [] stdout = "{\"Id\": 4242}" ->
            [ok |-> TRUE, object |-> TRUE, Id |-> Some(4242), Status |-> None]
      [] stdout = "[{\"Id\": 4242}, {\"Id\": 4343}]" ->
            [ok |-> TRUE, object |-> FALSE, Id |-> None, Status |-> None]
      [] OTHER ->
            [ok |-> FALSE, object |-> FALSE, Id |-> None, Status |-> None]

(* What a check_* coroutine does: it returns a value, or it raises *)
Returns(value) == [raised |-> FALSE, value |-> Some(value)]
Raises == [raised |-> TRUE, value |-> None]

(* check_zwift_running / check_obs_running, given the reply of their remote
   command: the inner handler catches JSONDecodeError and KeyError and falls
   through to running=False, the outer "except Exception" catches the rest *)
check_process_running_Propagates(reply) ==
    IF reply.raised THEN Raises
    ELSE IF reply.rc = 0 /\ reply.stdout # ""
    THEN LET data == json_loads(reply.stdout)
         IN  IF ~data.ok THEN Returns(ZwiftStatus(FALSE, None))
             ELSE IF ~data.object THEN Raises
             ELSE Returns(ZwiftStatus(TRUE, data.Id))
    ELSE Returns(ZwiftStatus(FALSE, None))

check_process_running(reply) ==
    IF reply.raised THEN Returns(ZwiftStatus(FALSE, None))
    ELSE IF reply.rc = 0 /\ reply.stdout # ""
    THEN LET data == json_loads(reply.stdout)
         IN  IF ~data.ok THEN Returns(ZwiftStatus(FALSE, None))
             ELSE IF ~data.object THEN Returns(ZwiftStatus(FALSE, None))
             ELSE Returns(ZwiftStatus(TRUE, data.Id))
    ELSE Returns(ZwiftStatus(FALSE, None))

(* check_sunshine_status, given the reply of its remote command *)
check_sunshine_status_BadJsonIsError(reply) ==
    IF reply.raised
    THEN Returns(ServiceStatus("SunshineService", FALSE, Some("Error")))
    ELSE IF reply.rc = 0 /\ reply.stdout # ""
    THEN LET data == json_loads(reply.stdout)
         IN  IF ~data.ok
             THEN Returns(ServiceStatus("SunshineService", FALSE, Some("Error")))
             ELSE IF ~data.object
             THEN Returns(ServiceStatus("SunshineService", FALSE, Some("Error")))
             ELSE Returns(ServiceStatus("SunshineService",
                                        data.Status = Some("Running"), data.Status))
    ELSE Returns(ServiceStatus("SunshineService", FALSE, Some("Unknown")))

check_sunshine_status_AnyStatusRuns(reply) ==
    IF reply.raised
    THEN Returns(ServiceStatus("SunshineService", FALSE, Some("Error")))
    ELSE IF reply.rc = 0 /\ reply.stdout # ""
    THEN LET data == json_loads(reply.stdout)
         IN  IF ~data.ok
             THEN Returns(ServiceStatus("SunshineService", FALSE, Some("Unknown")))
             ELSE IF ~data.object
             THEN Returns(ServiceStatus("SunshineService", FALSE, Some("Error")))
             ELSE Returns(ServiceStatus("SunshineService",
                                        data.Status # None, data.Status))
    ELSE Returns(ServiceStatus("SunshineService", FALSE, Some("Unknown")))

check_sunshine_status(reply) ==
    IF reply.raised
    THEN Returns(ServiceStatus("SunshineService", FALSE, Some("Error")))
    ELSE IF reply.rc = 0 /\ reply.stdout # ""
    THEN LET data == json_loads(reply.stdout)
         IN  IF ~data.ok
             THEN Returns(ServiceStatus("SunshineService", FALSE, Some("Unknown")))
             ELSE IF ~data.object
             THEN Returns(ServiceStatus("SunshineService", FALSE, Some("Error")))
             ELSE Returns(ServiceStatus("SunshineService",
                                        data.Status = Some("Running"), data.Status))
    ELSE Returns(ServiceStatus("SunshineService", FALSE, Some("Unknown")))

(* "if is_online:" of check_pc_online *)
SshIsProbed_Always(is_online) == TRUE

SshIsProbed(is_online) == is_online

(* "if pc_status.online and pc_status.ssh_available:" of check_full_status *)
DetailsAreChecked_OnlineOnly(pc_status) == pc_status.online

DetailsAreChecked(pc_status) == pc_status.online /\ pc_status.ssh_available

StatusOperations == {"check_pc_online", "check_full_status"}

(* probes: the probes and checks invoked so far; replies: what each remote
   check came back with; is_online, pc_status, zwift, sunshine, obs: the local
   variables of that name; result: the value returned *)
ChkIdle ==
    [op |-> "none", pc |-> "idle", probes |-> <<>>, replies |-> <<>>,
     is_online |-> None, pc_status |-> None, zwift |-> None, sunshine |-> None, obs |-> None,
     ret |-> "none", result |-> None]

(* check_pc_online has built its PCStatus: it returns it; in
   check_full_status the detail checks follow, or the FullStatus is returned *)
AfterPcStatus(c, pc_status) ==
    LET cc == [c EXCEPT !.pc_status = Some(pc_status)]
    IN  IF c.op = "check_pc_online"
        THEN [cc EXCEPT !.pc = "done", !.ret = "returned",
                        !.result = Some(pc_status)]
        ELSE IF DetailsAreChecked(pc_status)
        THEN [cc EXCEPT !.pc = "check_zwift_running",
                        !.probes = Append(@, "check_zwift_running")]
        ELSE [cc EXCEPT !.pc = "done", !.ret = "returned",
                        !.result = Some(FullStatus(pc_status, None, None, None))]

(* "return FullStatus(pc=pc_status, zwift=..., sunshine=..., obs=...)" *)
ReturnFullStatus(c) ==
    [c EXCEPT !.pc = "done", !.ret = "returned",
              !.result = Some(FullStatus(c.pc_status[1], c.zwift, c.sunshine,
                                         c.obs))]

(* The operation is called: "await ping_host(settings.pc_ip, timeout=1)" *)
StatusStart(op) ==
    /\ chk.pc = "idle"
    /\ chk' = [ChkIdle EXCEPT !.op = op, !.pc = "ping_host",
                              !.probes = <<"ping_host">>]
    /\ UNCHANGED <<seq, tasks, runs, nextId, direct, http, returned, poll, call, remote, ctl>>

(* ping_host returns is_online *)
PingReturns(is_online) ==
    /\ chk.pc = "ping_host"
    /\ LET c == [chk EXCEPT !.is_online = Some(is_online)]
       IN  chk' = IF SshIsProbed(is_online)
                  THEN [c EXCEPT !.pc = "is_available",
                                 !.probes = Append(@, "is_available")]
                  ELSE AfterPcStatus(c, PCStatus(is_online, FALSE))
    /\ UNCHANGED <<seq, tasks, runs, nextId, direct, http, returned, poll, call, remote, ctl>>

(* self.ssh.is_available() returns ssh_available *)
SshReturns(ssh_available) ==
    /\ chk.pc = "is_available"
    /\ chk' = AfterPcStatus(chk, PCStatus(chk.is_online[1], ssh_available))
    /\ UNCHANGED <<seq, tasks, runs, nextId, direct, http, returned, poll, call, remote, ctl>>

(* The remote command of check_zwift_running comes back with reply *)
ZwiftReplies(reply) ==
    /\ chk.pc = "check_zwift_running"
    /\ LET c == [chk EXCEPT !.replies = Append(@, reply)]
           zwift_status == check_process_running(reply)
       IN  chk' = IF zwift_status.raised
                  THEN ReturnFullStatus(c)
                  ELSE [c EXCEPT !.zwift = zwift_status.value,
                                 !.pc = "check_sunshine_status",
                                 !.probes = Append(@, "check_sunshine_status")]
    /\ UNCHANGED <<seq, tasks, runs, nextId, direct, http, returned, poll, call, remote, ctl>>

(* The remote command of check_sunshine_status comes back with reply *)
SunshineReplies(reply) ==
    /\ chk.pc = "check_sunshine_status"
    /\ LET c == [chk EXCEPT !.replies = Append(@, reply)]
           sunshine_status == check_sunshine_status(reply)
       IN  chk' = IF sunshine_status.raised
                  THEN ReturnFullStatus(c)
                  ELSE [c EXCEPT !.sunshine = sunshine_status.value,
                                 !.pc = "check_obs_running",
                                 !.probes = Append(@, "check_obs_running")]
    /\ UNCHANGED <<seq, tasks, runs, nextId, direct, http, returned, poll, call, remote, ctl>>

(* The remote command of check_obs_running comes back with reply *)
ObsReplies(reply) ==
    /\ chk.pc = "check_obs_running"
    /\ LET c == [chk EXCEPT !.replies = Append(@, reply)]
           obs_status == check_process_running(reply)
       IN  chk' = IF obs_status.raised
                  THEN ReturnFullStatus(c)
                  ELSE ReturnFullStatus([c EXCEPT !.obs = obs_status.value])
    /\ UNCHANGED <<seq, tasks, runs, nextId, direct, http, returned, poll, call, remote, ctl>>

NextStatus ==
    \/ \E op \in StatusOperations : StatusStart(op)
    \/ \E is_online \in BOOLEAN : PingReturns(is_online)
    \/ \E ssh_available \in BOOLEAN : SshReturns(ssh_available)
    \/ \E reply \in StatusReplies : ZwiftReplies(reply)
    \/ \E reply \in StatusReplies : SunshineReplies(reply)
    \/ \E reply \in StatusReplies : ObsReplies(reply)

-----------------------------------------------------------------------------
(* The single-command stages of PCControlService                             *)
(* (api/services/pc_control.py): each sends one command over the channel and *)
(* turns what comes back into its boolean                                    *)

CommandStages ==
    {"kill_zwift_processes", "stop_sunshine", "start_sunshine", "launch_zwift",
     "activate_zwift_launcher", "launch_sauce", "set_process_priorities",
     "shutdown_pc"}

(* The stages whose remote script reads and changes the Sunshine service *)
SunshineStages == {"stop_sunshine", "start_sunshine"}

(* SSHClient.execute: "return_code = result.exit_status if result.exit_status
   is not None else -1"; any other non-zero exit status is told apart from 0
   by no stage, 1 stands for them *)
ExitCodes == {0, 1, -1}

(* What SSHClient.execute / execute_powershell comes back with: it raises
   (asyncio.TimeoutError, asyncssh.Error, any other exception, all re-raised),
   or it returns (stdout, stderr, return_code); stderr is only logged *)
CommandReplies ==
    {[raised |-> TRUE, rc |-> 0, stdout |-> ""]}
        \cup [raised : {FALSE}, rc : ExitCodes, stdout : {"", "SUCCESS"}]

(* kill_zwift_processes: "return True" after the command and in the handler *)
kill_zwift_processes_ChecksExit(reply) ==
    IF reply.raised THEN Returns(TRUE) ELSE Returns(reply.rc = 0)

kill_zwift_processes(reply) ==
    IF reply.raised THEN Returns(TRUE) ELSE Returns(TRUE)

(* stop_sunshine: "if return_code == 0: return True / else: return False",
   "except Exception: return False" *)
stop_sunshine_AnyExit(reply) ==
    IF reply.raised THEN Returns(FALSE) ELSE Returns(TRUE)

stop_sunshine(reply) ==
    IF reply.raised THEN Returns(FALSE) ELSE Returns(reply.rc = 0)

(* start_sunshine: the same shape *)
start_sunshine_Propagates(reply) ==
    IF reply.raised THEN Raises ELSE Returns(reply.rc = 0)

start_sunshine(reply) ==
    IF reply.raised THEN Returns(FALSE) ELSE Returns(reply.rc = 0)

(* launch_zwift: the same shape *)
launch_zwift(reply) ==
    IF reply.raised THEN Returns(FALSE) ELSE Returns(reply.rc = 0)

(* activate_zwift_launcher: the same shape *)
activate_zwift_launcher_Propagates(reply) ==
    IF reply.raised THEN Raises ELSE Returns(reply.rc = 0)

activate_zwift_launcher(reply) ==
    IF reply.raised THEN Returns(FALSE) ELSE Returns(reply.rc = 0)

(* launch_sauce: "if return_code == 0: return True / else: return True",
   "except Exception: return True" *)
launch_sauce(reply) ==
    IF reply.raised THEN Returns(TRUE)
    ELSE IF reply.rc = 0 THEN Returns(TRUE) ELSE Returns(TRUE)

(* set_process_priorities: "return True" after the command and in the handler *)
set_process_priorities(reply) ==
    IF reply.raised THEN Returns(TRUE) ELSE Returns(TRUE)

(* shutdown_pc: "return True" after the command, "except Exception: return
   False" *)
shutdown_pc_ChecksExit(reply) ==
    IF reply.raised THEN Returns(FALSE) ELSE Returns(reply.rc = 0)

shutdown_pc(reply) ==
    IF reply.raised THEN Returns(FALSE) ELSE Returns(TRUE)

(* "await pc_control.<stage>()" given what the channel came back with *)
StageBody(stage, reply) ==
    CASE stage = "kill_zwift_processes"    -> kill_zwift_processes(reply)
      [] stage = "stop_sunshine"           -> stop_sunshine(reply)
      [] stage = "start_sunshine"          -> start_sunshine(reply)
      [] stage = "launch_zwift"            -> launch_zwift(reply)
      [] stage = "activate_zwift_launcher" -> activate_zwift_launcher(reply)
      [] stage = "launch_sauce"            -> launch_sauce(reply)
      [] stage = "set_process_priorities"  -> set_process_priorities(reply)
      [] stage = "shutdown_pc"             -> shutdown_pc(reply)

(* The Sunshine service on the PC as the scripts of stop_sunshine and
   start_sunshine read it: Get-Service SunshineService finds it (installed) in
   a status, Get-Process sunshine finds a process or none *)
ServiceStates == {"Stopped", "StartPending", "StopPending", "Running"}

RemoteStates ==
    [installed : {FALSE}, status : {""}, process : BOOLEAN]
        \cup [installed : {TRUE}, status : ServiceStates, process : BOOLEAN]

(* A pending transition of the service may have completed by the time the
   script reads the status again *)
Settled(status) ==
    CASE status = "StopPending"  -> {"StopPending", "Stopped"}
      [] status = "StartPending" -> {"StartPending", "Running"}
      [] OTHER                   -> {status}

(* One run of a script: the service it leaves, its exit code and output, and
   the status its final verification read (None when it did not get there) *)
ScriptRun(after, rc, stdout, verify) ==
    [after |-> after, rc |-> rc, stdout |-> stdout, verify |-> verify]

(* "if ($verify.Status -eq 'Stopped') { ...; exit 0 } else { ...; exit 1 }" *)
StopVerdict(status) == IF status = "Stopped" THEN 0 ELSE 1

(* The script of stop_sunshine run on service r.  "if (-not $service) { ...;
   exit 1 }"; Stop-Service -ErrorAction Stop runs only on a Running service and
   either ends the script with an error or returns with the service Stopped or
   still stopping; Stop-Process runs only when a process was found and may
   fail without ending the script; then the verification *)
StopScript(r) ==
    IF ~r.installed
    THEN {ScriptRun(r, 1, "Service not found", None)}
    ELSE {ScriptRun(r, 1, "", None) : x \in IF r.status = "Running" THEN {1} ELSE {}}
         \cup
         {ScriptRun([installed |-> TRUE, status |-> status, process |-> process],
                    StopVerdict(status),
                    IF StopVerdict(status) = 0 THEN "Stopped successfully"
                                               ELSE "Failed to stop",
                    Some(status)) :
            status \in IF r.status = "Running" THEN {"Stopped", "StopPending"}
                                               ELSE Settled(r.status),
            process \in IF r.process THEN BOOLEAN ELSE {FALSE}}

(* "if ($serviceCheck.Status -eq 'Running' -and $process) { ...; exit 0 }
   else { ...; exit 1 }" *)
StartVerdict(status, process) == IF status = "Running" /\ process THEN 0 ELSE 1

(* The script of start_sunshine run on service r.  Start-Service -ErrorAction
   Stop runs only on a Stopped service and either ends the script with an
   error or returns with the service Running or still starting; a Running
   service may or may not have brought up its sunshine process by the time
   Get-Process looks for it; then the verification *)
StartScript(r) ==
    IF ~r.installed
    THEN {ScriptRun(r, 1, "Service not found", None)}
    ELSE {ScriptRun(r, 1, "", None) : x \in IF r.status = "Stopped" THEN {1} ELSE {}}
         \cup
         {ScriptRun([installed |-> TRUE, status |-> status, process |-> process],
                    StartVerdict(status, process),
                    IF StartVerdict(status, process) = 0
                    THEN "Started successfully"
                    ELSE "Service running but process not detected",
                    Some(status)) :
            status \in IF r.status = "Stopped" THEN {"Running", "StartPending"}
                                               ELSE Settled(r.status),
            process \in IF r.process THEN {TRUE} ELSE BOOLEAN}

ScriptOf(stage, r) ==
    IF stage = "stop_sunshine" THEN StopScript(r) ELSE StartScript(r)

(* stage: the stage invoked; pc: "idle", "execute" (awaiting the channel) or
   "done"; before, after: the service when the command was sent and when the
   channel came back; reply: what the channel came back with; verify: the status the script's verification read;
   result: what the stage returned, or that it raised; prev: the stage call
   completed just before this one with the service left alone in between *)
CallIdle ==
    [stage |-> "none", pc |-> "idle", before |-> None, after |-> None,
     reply |-> None, verify |-> None, result |-> None, prev |-> None]

(* "await self.ssh.execute(...)" / "await self.ssh.execute_powershell(...)" of
   the stage that is invoked *)
Invoked(c, stage) ==
    [CallIdle EXCEPT !.stage = stage, !.pc = "execute", !.prev = c.prev]

(* The channel came back with reply and the stage runs to its return *)
Finished(c, before, after, reply, verify) ==
    [c EXCEPT !.pc = "done", !.before = before, !.after = after,
              !.reply = Some(reply),
              !.verify = verify, !.result = Some(StageBody(c.stage, reply))]

(* What is kept of a completed call *)
Completed(c) ==
    [stage |-> c.stage, reply |-> c.reply[1], result |-> c.result[1],
     after |-> c.after]

(* Somebody on the PC (or the boot) puts the Sunshine service in state r; not
   while a script is running on a known service *)
ServiceBecomes(r) ==
    /\ call.pc # "execute" \/ remote = None
    /\ remote # Some(r)
    /\ remote' = Some(r)
    /\ call' = [call EXCEPT !.prev = None]
    /\ UNCHANGED <<seq, tasks, runs, nextId, direct, http, returned, poll, chk, ctl>>

(* A stage is called on its own *)
StageCall(stage) ==
    /\ call.pc = "idle"
    /\ ctl.pc = "idle"
    /\ call' = Invoked(call, stage)
    /\ UNCHANGED <<seq, tasks, runs, nextId, direct, http, returned, poll, chk, remote, ctl>>

(* The command of a stage other than stop_sunshine / start_sunshine comes back *)
CommandReturns(reply) ==
    /\ call.pc = "execute"
    /\ call.stage \notin SunshineStages
    /\ call' = Finished(call, remote, remote, reply, None)
    /\ UNCHANGED <<seq, tasks, runs, nextId, direct, http, returned, poll, chk, remote, ctl>>

(* The script of stop_sunshine / start_sunshine runs to its exit and the
   channel delivers its exit code and output *)
ScriptReturns ==
    /\ call.pc = "execute"
    /\ call.stage \in SunshineStages
    /\ remote # None
    /\ \E run \in ScriptOf(call.stage, remote[1]) :
          /\ remote' = Some(run.after)
          /\ call' = Finished(call, remote, Some(run.after),
                              [raised |-> FALSE, rc |-> run.rc, stdout |-> run.stdout],
                              run.verify)
    /\ UNCHANGED <<seq, tasks, runs, nextId, direct, http, returned, poll, chk, ctl>>

(* The channel breaks under stop_sunshine / start_sunshine: execute_powershell
   raises (no connection, or the 15 s timeout) or the remote shell was killed
   (exit status None); the script did nothing, or whatever it got to do *)
ScriptBreaks(reply) ==
    /\ call.pc = "execute"
    /\ call.stage \in SunshineStages
    /\ reply.raised \/ reply.rc = -1
    /\ \E after \in {remote} \cup
                    (IF remote = None THEN {}
                     ELSE {Some(run.after) : run \in ScriptOf(call.stage, remote[1])}) :
          /\ remote' = after
          /\ call' = Finished(call, remote, after, reply, None)
    /\ UNCHANGED <<seq, tasks, runs, nextId, direct, http, returned, poll, chk, ctl>>

(* The caller of a stage called on its own has its boolean (or its exception) *)
StageEnds ==
    /\ call.pc = "done"
    /\ ctl.pc = "idle"
    /\ call' = [CallIdle EXCEPT !.prev = IF remote = call.after
                                          THEN Some(Completed(call)) ELSE None]
    /\ UNCHANGED <<seq, tasks, runs, nextId, direct, http, returned, poll, chk, remote, ctl>>

NextStage ==
    \/ \E r \in RemoteStates : ServiceBecomes(r)
    \/ \E stage \in CommandStages : StageCall(stage)
    \/ \E reply \in CommandReplies : CommandReturns(reply)
    \/ ScriptReturns
    \/ \E reply \in CommandReplies : ScriptBreaks(reply)
    \/ StageEnds

-----------------------------------------------------------------------------
(* The control router's synchronous endpoints (api/routers/control.py):      *)
(* POST stop, POST sunshine/stop, POST sunshine/start, POST sunshine/toggle  *)

(* "raise HTTPException(status_code=..., detail=...)" as the client sees it *)
HTTPException(status_code, detail) ==
    [status_code |-> status_code, detail |-> detail, body |-> None]

(* A response model returned by the endpoint (HTTP 200) *)
Answer(body) == [status_code |-> 200, detail |-> "", body |-> Some(body)]

(* models.py: StopResponse, SunshineResponse (service_status defaults to None) *)
StopResponse(success, message) == [success |-> success, message |-> message]

SunshineResponse(success, message, service_status) ==
    [success |-> success, message |-> message, service_status |-> service_status]

SunshineRoutes == {"sunshine/stop", "sunshine/start", "sunshine/toggle"}

ControlRoutes == {"stop"} \cup SunshineRoutes

(* The word the details and messages of a sunshine endpoint are built on *)
Verb(stage) == IF stage = "stop_sunshine" THEN "stop" ELSE "start"

(* "if not is_online: raise HTTPException(status_code=400, ...)" of stop_pc *)
StopIsRefused_Never(is_online) == FALSE

StopIsRefused(is_online) == ~is_online

(* "if not success: raise HTTPException(status_code=500, ...)", else the
   StopResponse, of stop_pc *)
StopAnswer(success) ==
    IF ~success
    THEN HTTPException(500, "Failed to send shutdown command to PC.")
    ELSE Answer(StopResponse(TRUE,
                    "Shutdown command sent. PC will shut down in 5 seconds."))

(* "if not pc_status.online: raise HTTPException(status_code=503, ...)" and
   "if not pc_status.ssh_available: raise HTTPException(status_code=503, ...)"
   of the sunshine endpoints: the exception raised, or None *)
SunshineRefusal_OfflineOnly(pc_status, verb) ==
    IF ~pc_status.online
    THEN Some(HTTPException(503, "PC is offline. Cannot " \o verb
                                     \o " Sunshine service."))
    ELSE None

SunshineRefusal(pc_status, verb) ==
    IF ~pc_status.online
    THEN Some(HTTPException(503, "PC is offline. Cannot " \o verb
                                     \o " Sunshine service."))
    ELSE IF ~pc_status.ssh_available
    THEN Some(HTTPException(503, "SSH connection not available. Cannot "
                                     \o verb \o " Sunshine service."))
    ELSE None

(* "if not success: return SunshineResponse(success=False, message=...)" of
   stop_sunshine and start_sunshine (the endpoints) *)
SunshineFailure(stage) ==
    Answer(SunshineResponse(FALSE,
        IF stage = "stop_sunshine"
        THEN "Failed to stop Sunshine service. Service may not be installed or already stopped."
        ELSE "Failed to start Sunshine service. Service may not be installed or process did not start properly.",
        None))

(* "return SunshineResponse(success=True, message=..., service_status=
   service_status)" *)
SunshineSuccess(stage, service_status) ==
    Answer(SunshineResponse(TRUE,
        IF stage = "stop_sunshine" THEN "Sunshine service stopped successfully."
                                   ELSE "Sunshine service started successfully.",
        Some(service_status)))

(* POST sunshine/toggle: the service operation chosen from the status read
   first, and the response, which carries the flag of the operation and the
   status read after it *)
ToggleStage(service_status) ==
    IF service_status.running THEN "stop_sunshine" ELSE "start_sunshine"

ToggleAnswer(stage, success, service_status) ==
    Answer(SunshineResponse(success,
        IF success
        THEN (IF stage = "stop_sunshine" THEN "Sunshine service stopped successfully."
                                         ELSE "Sunshine service started successfully.")
        ELSE "Failed to " \o Verb(stage) \o " Sunshine service.",
        Some(service_status)))

(* What FastAPI answers when the endpoint lets an exception through *)
InternalServerError == HTTPException(500, "Internal Server Error")

(* route: the endpoint; pc: where its coroutine is; invoked: the probes,
   checks and stages it has awaited, in order; is_online, pc_status, success,
   service_status: its local variables; before: the status POST sunshine/toggle
   read first; stage: the service operation; replies: what the status checks'
   commands came back with; response: what the client gets *)
CtlIdle ==
    [route |-> "none", pc |-> "idle", invoked |-> <<>>, is_online |-> None,
     pc_status |-> None, before |-> None, stage |-> "none", success |-> None,
     service_status |-> None, replies |-> <<>>, response |-> None]

(* A client posts to the endpoint: stop_pc awaits ping_host, the sunshine
   endpoints await status_checker.check_pc_online() *)
ControlRequest(route) ==
    /\ ctl.pc = "idle"
    /\ call.pc = "idle"
    /\ chk.pc = "idle"
    /\ IF route = "stop"
       THEN /\ ctl' = [CtlIdle EXCEPT !.route = route, !.pc = "ping_host",
                                      !.invoked = <<"ping_host">>]
            /\ chk' = chk
       ELSE /\ ctl' = [CtlIdle EXCEPT !.route = route, !.pc = "check_pc_online",
                                      !.invoked = <<"check_pc_online">>]
            /\ chk' = [ChkIdle EXCEPT !.op = "check_pc_online", !.pc = "ping_host",
                                      !.probes = <<"ping_host">>]
    /\ UNCHANGED <<seq, tasks, runs, nextId, direct, http, returned, poll, call, remote>>

(* stop_pc: ping_host returns (is_online, _); 400, or shutdown_pc is awaited *)
StopPingReturns(is_online) ==
    /\ ctl.pc = "ping_host"
    /\ IF StopIsRefused(is_online)
       THEN /\ ctl' = [ctl EXCEPT !.pc = "done", !.is_online = Some(is_online),
                          !.response = Some(HTTPException(400,
                              "PC is not online. Cannot send shutdown command."))]
            /\ call' = call
       ELSE /\ ctl' = [ctl EXCEPT !.pc = "shutdown_pc", !.stage = "shutdown_pc",
                                  !.is_online = Some(is_online),
                                  !.invoked = Append(@, "shutdown_pc")]
            /\ call' = Invoked(CallIdle, "shutdown_pc")
    /\ UNCHANGED <<seq, tasks, runs, nextId, direct, http, returned, poll, chk, remote>>

(* stop_pc: shutdown_pc has returned success; 500, or the StopResponse *)
StopStageReturns ==
    /\ ctl.pc = "shutdown_pc"
    /\ call.pc = "done"
    /\ LET result == call.result[1]
       IN  ctl' = IF result.raised
                  THEN [ctl EXCEPT !.pc = "done", !.response = Some(InternalServerError)]
                  ELSE [ctl EXCEPT !.pc = "done", !.success = result.value,
                                   !.response = Some(StopAnswer(result.value[1]))]
    /\ call' = CallIdle
    /\ UNCHANGED <<seq, tasks, runs, nextId, direct, http, returned, poll, chk, remote>>

(* A sunshine endpoint: check_pc_online has returned pc_status; 503, or the
   service operation is awaited (POST sunshine/toggle reads the status first) *)
PcStatusReturns ==
    /\ ctl.pc = "check_pc_online"
    /\ chk.pc = "done"
    /\ LET pc_status == chk.result[1]
           stage     == IF ctl.route = "sunshine/stop" THEN "stop_sunshine"
                        ELSE IF ctl.route = "sunshine/start" THEN "start_sunshine"
                        ELSE "none"
           verb      == IF stage = "none" THEN "toggle" ELSE Verb(stage)
           refusal   == SunshineRefusal(pc_status, verb)
           c         == [ctl EXCEPT !.pc_status = Some(pc_status)]
       IN  IF refusal # None
           THEN /\ ctl' = [c EXCEPT !.pc = "done", !.response = refusal]
                /\ call' = call
           ELSE IF ctl.route = "sunshine/toggle"
           THEN /\ ctl' = [c EXCEPT !.pc = "status_before",
                                    !.invoked = Append(@, "check_sunshine_status")]
                /\ call' = call
           ELSE /\ ctl' = [c EXCEPT !.pc = "stage", !.stage = stage,
                                    !.invoked = Append(@, stage)]
                /\ call' = Invoked(CallIdle, stage)
    /\ chk' = ChkIdle
    /\ UNCHANGED <<seq, tasks, runs, nextId, direct, http, returned, poll, remote>>

(* POST sunshine/toggle: the command of the first check_sunshine_status comes
   back with reply; the service operation is chosen and awaited *)
ToggleStatusReplies(reply) ==
    /\ ctl.pc = "status_before"
    /\ LET service_status == check_sunshine_status(reply).value[1]
           stage == ToggleStage(service_status)
       IN  /\ ctl' = [ctl EXCEPT !.pc = "stage", !.stage = stage,
                                 !.before = Some(service_status),
                                 !.replies = Append(@, reply),
                                 !.invoked = Append(@, stage)]
           /\ call' = Invoked(CallIdle, stage)
    /\ UNCHANGED <<seq, tasks, runs, nextId, direct, http, returned, poll, chk, remote>>

(* A sunshine endpoint: the service operation has returned success; stop and
   start answer a failure at once, otherwise check_sunshine_status is awaited *)
SunshineStageReturns ==
    /\ ctl.pc = "stage"
    /\ call.pc = "done"
    /\ LET result == call.result[1]
       IN  ctl' = IF result.raised
                  THEN [ctl EXCEPT !.pc = "done", !.response = Some(InternalServerError)]
                  ELSE IF ~result.value[1] /\ ctl.route # "sunshine/toggle"
                  THEN [ctl EXCEPT !.pc = "done", !.success = result.value,
                                   !.response = Some(SunshineFailure(ctl.stage))]
                  ELSE [ctl EXCEPT !.pc = "status_after", !.success = result.value,
                                   !.invoked = Append(@, "check_sunshine_status")]
    /\ call' = CallIdle
    /\ UNCHANGED <<seq, tasks, runs, nextId, direct, http, returned, poll, chk, remote>>

(* A sunshine endpoint: the command of the check_sunshine_status after the
   operation comes back with reply; the response *)
SunshineStatusReplies(reply) ==
    /\ ctl.pc = "status_after"
    /\ LET service_status == check_sunshine_status(reply).value[1]
       IN  ctl' = [ctl EXCEPT
                      !.pc = "done",
                      !.service_status = Some(service_status),
                      !.replies = Append(@, reply),
                      !.response =
                          Some(IF ctl.route = "sunshine/toggle"
                               THEN ToggleAnswer(ctl.stage, ctl.success[1],
                                                 service_status)
                               ELSE SunshineSuccess(ctl.stage, service_status))]
    /\ UNCHANGED <<seq, tasks, runs, nextId, direct, http, returned, poll, chk, call, remote>>

(* The response has been sent *)
ControlEnds ==
    /\ ctl.pc = "done"
    /\ ctl' = CtlIdle
    /\ UNCHANGED <<seq, tasks, runs, nextId, direct, http, returned, poll, chk, call, remote>>

NextControl ==
    \/ \E r \in RemoteStates : ServiceBecomes(r)
    \/ \E route \in ControlRoutes : ControlRequest(route)
    \/ \E is_online \in BOOLEAN : StopPingReturns(is_online)
    \/ StopStageReturns
    \/ \E is_online \in BOOLEAN : PingReturns(is_online)
    \/ \E ssh_available \in BOOLEAN : SshReturns(ssh_available)
    \/ PcStatusReturns
    \/ \E reply \in StatusReplies : ToggleStatusReplies(reply)
    \/ \E reply \in CommandReplies : CommandReturns(reply)
    \/ ScriptReturns
    \/ \E reply \in CommandReplies : ScriptBreaks(reply)
    \/ SunshineStageReturns
    \/ \E reply \in StatusReplies : SunshineStatusReplies(reply)
    \/ ControlEnds

-----------------------------------------------------------------------------
Init ==
    /\ seq = SeqIdle
    /\ tasks = <<>>
    /\ runs = <<>>
    /\ nextId = 0
    /\ direct = 0
    /\ http = [post |-> <<>>, get |-> None]
    /\ returned = <<>>
    /\ poll = PollIdle
    /\ chk = ChkIdle
    /\ call = CallIdle
    /\ remote = None
    /\ ctl = CtlIdle

NextSeq ==
    \/ \E kind \in SequenceKinds : SeqStart(kind)
    \/ SeqCall
    \/ \E b \in BOOLEAN : SeqReturn(b)
    \/ SeqRaise

(* StatusChecker.check_pc_online and check_full_status, called on their own *)
SpecStatus == Init /\ [][NextStatus]_vars

(* The single-command stages of PCControlService, called on their own against
   a PC whose Sunshine service anybody may change between two calls *)
SpecStage == Init /\ [][NextStage]_vars

(* The control router's synchronous endpoints, one request at a time, over the
   real bodies of check_pc_online, check_sunshine_status and the stages *)
SpecControl == Init /\ [][NextControl]_vars

(* A polling stage, called on its own *)
SpecPoll == Init /\ [][NextPoll]_vars

(* The canned sequences of PCControlService, called on their own *)
SpecSeq == Init /\ [][NextSeq]_vars

Next ==
    \/ \E task_type \in TaskTypes : PostRequest(task_type)
    \/ \E task_id \in TaskIds : RunBegin(task_id)
    \/ \E task_id \in TaskIds, b \in BOOLEAN : RunReturn(task_id, b)
    \/ \E task_id \in TaskIds, text \in ExceptionTexts : RunRaise(task_id, text)

NextAPI ==
    \/ Next
    \/ \E task_type \in TaskTypes : CallCreateTask(task_type)
    \/ \E task_id \in TaskIds \cup {UnknownId} :
          CallUpdateTaskProgress(task_id, "Waiting", 1, 1)
    \/ \E task_id \in TaskIds \cup {UnknownId} : CallMarkTaskRunning(task_id)
    \/ \E task_id \in TaskIds \cup {UnknownId} : CallMarkTaskCompleted(task_id)
    \/ \E task_id \in TaskIds \cup {UnknownId} :
          CallMarkTaskFailed(task_id, "Cancelled")
    \/ \E task_id \in TaskIds, task_type \in TaskTypes :
          CallRunSequence(task_id, task_type)

(* The TaskManager under any sequence of its operations: the router's requests
   and their runs, and the operations called directly *)
SpecAPI == Init /\ [][NextAPI]_vars

(* The service as the control router drives it: every task is created by a
   POST start / POST wake request and run by the one background run the
   request schedules *)
Spec == Init /\ [][Next]_vars

(* The stage awaited by the run of task_id comes back: it returns or raises *)
StageAnswers(task_id) ==
    \/ \E b \in BOOLEAN : RunReturn(task_id, b)
    \/ \E text \in ExceptionTexts : RunRaise(task_id, text)

NextRead ==
    \/ Next
    \/ \E task_id \in TaskIds \cup {UnknownId} : GetTaskStatus(task_id)

(* The control router with its readers: POST start / POST wake, the runs they
   schedule, and GET tasks/{task_id} between any two steps of the runs *)
SpecRead == Init /\ [][NextRead]_vars

(* The first task handed out: the run the canned sequence is compared with *)
FirstTask == 1

NextPair ==
    \/ NextSeq
    \/ nextId < FirstTask /\ \E task_type \in TaskTypes : PostRequest(task_type)
    \/ RunBegin(FirstTask)
    \/ \E b \in BOOLEAN : RunReturn(FirstTask, b)
    \/ \E text \in ExceptionTexts : RunRaise(FirstTask, text)

(* One canned sequence of PCControlService and one background run of the
   TaskManager, side by side on the same stage library *)
SpecPair == Init /\ [][NextPair]_vars

NextFair ==
    \/ nextId < FirstTask /\ \E task_type \in TaskTypes : PostRequest(task_type)
    \/ RunBegin(FirstTask)
    \/ StageAnswers(FirstTask)
    \/ \E task_id \in {FirstTask, UnknownId} : GetTaskStatus(task_id)

(* One task of the control router, its background run and a caller polling
   GET tasks/{task_id}, when no stage hangs: an awaited stage eventually
   returns or raises, and the event loop then resumes the coroutine awaiting it
   up to its next await. Nothing is assumed about the request arriving, about
   the start of the scheduled run or about the caller's polls *)
SpecFair ==
    /\ Init
    /\ [][NextFair]_vars
    /\ WF_vars(StageAnswers(FirstTask))

(* The sequences on top of the real bodies of their single-command stages:   *)
(* what such a stage hands to the sequence is what its body makes of the     *)
(* channel's reply                                                           *)

(* The stage the canned sequence is awaiting *)
SeqAwaited ==
    IF seq.pc = "awaiting" THEN StepsOf(seq.kind)[seq.idx].stage ELSE "none"

(* The stage the run of task_id is awaiting *)
RunAwaited(task_id) ==
    IF task_id \in DOMAIN runs /\ runs[task_id].pc = "awaiting"
    THEN RunStepsOf(runs[task_id].type)[runs[task_id].idx].stage
    ELSE "none"

(* The command of the single-command stage awaited by the canned sequence
   comes back with reply: the stage returns what its body makes of it and the
   sequence goes on from there *)
SeqCommandReturns(reply) ==
    /\ SeqAwaited \in CommandStages
    /\ LET result == StageBody(SeqAwaited, reply)
       IN  seq' = IF result.raised
                  THEN SeqOnException([seq EXCEPT !.outs = Append(@, RAISE)])
                  ELSE SeqAfterReturn(
                          [seq EXCEPT !.outs = Append(@, IF result.value[1]
                                                         THEN RETURN_TRUE
                                                         ELSE RETURN_FALSE)],
                          result.value[1])
    /\ call' = Finished(Invoked(CallIdle, SeqAwaited), remote, remote, reply, None)
    /\ UNCHANGED <<tasks, runs, nextId, direct, http, returned, poll, chk, remote, ctl>>

(* The same for the run of task_id *)
RunCommandReturns(task_id, reply) ==
    /\ RunAwaited(task_id) \in CommandStages
    /\ LET result == StageBody(RunAwaited(task_id), reply)
           next   == IF result.raised
                     THEN RunOnException(tasks, runs[task_id], task_id,
                                         "Connection lost", utcnow)
                     ELSE RunAfterReturn(tasks, runs[task_id], task_id,
                                         result.value[1], utcnow)
       IN  /\ tasks' = next.tasks
           /\ runs' = [runs EXCEPT ![task_id] = next.run]
    /\ call' = Finished(Invoked(CallIdle, RunAwaited(task_id)), remote, remote,
                        reply, None)
    /\ UNCHANGED <<seq, nextId, direct, http, returned, poll, chk, remote, ctl>>

NextLauncher ==
    \/ \E kind \in SequenceKinds : SeqStart(kind)
    \/ SeqCall
    \/ SeqAwaited \notin CommandStages /\ \E b \in BOOLEAN : SeqReturn(b)
    \/ SeqAwaited \notin CommandStages /\ SeqRaise
    \/ \E reply \in CommandReplies : SeqCommandReturns(reply)
    \/ nextId < FirstTask /\ \E task_type \in TaskTypes : PostRequest(task_type)
    \/ RunBegin(FirstTask)
    \/ RunAwaited(FirstTask) \notin CommandStages
          /\ \E b \in BOOLEAN : RunReturn(FirstTask, b)
    \/ RunAwaited(FirstTask) \notin CommandStages
          /\ \E text \in ExceptionTexts : RunRaise(FirstTask, text)
    \/ \E reply \in CommandReplies : RunCommandReturns(FirstTask, reply)

(* One canned sequence and one background run whose single-command stages run
   their real bodies; wake_pc and the polling stages return or raise freely *)
SpecLauncher == Init /\ [][NextLauncher]_vars

-----------------------------------------------------------------------------
(* Vocabulary of the properties below, as the specification words them      *)

GatingStages ==
    {"wake_pc", "wait_for_network", "wait_for_ssh", "wait_for_desktop",
     "launch_zwift", "wait_for_zwift"}

NonGatingStages ==
    {"stop_sunshine", "kill_zwift_processes", "activate_zwift_launcher",
     "launch_sauce", "set_process_priorities"}

FullStartOrder ==
    <<"wake_pc", "wait_for_network", "wait_for_ssh", "wait_for_desktop",
      "stop_sunshine", "kill_zwift_processes", "launch_zwift",
      "activate_zwift_launcher", "launch_sauce", "wait_for_zwift",
      "set_process_priorities">>

WakeOnlyOrder == <<"wake_pc", "wait_for_network", "wait_for_ssh">>

WakeOnlyKeys == <<"wol_sent", "network_available", "ssh_available">>

IsPrefix(s, t) == Len(s) <= Len(t) /\ \A i \in 1..Len(s) : s[i] = t[i]

(* The i-th stage invoked by the canned sequence has returned / raised o *)
SeqStageDid(i, o) == i \in 1..Len(seq.outs) /\ seq.outs[i] = o

(* The canned sequence has returned its result dict to the caller *)
SeqReturned == seq.pc = "done" /\ seq.ret = "results"

(* C1: in full_start_sequence and wake_only_sequence, once a gating stage has
   returned false no later stage is invoked, the sequence has returned, and
   the returned result has success = false. *)
C1_GateFalseStops ==
    \A i \in 1..Len(seq.outs) :
        (seq.calls[i] \in GatingStages /\ seq.outs[i] = RETURN_FALSE)
            => /\ Len(seq.calls) = i
               /\ SeqReturned
               /\ seq.results["success"] = FALSE

C1_Witness ==
    /\ seq.kind = "full_start_sequence"
    /\ SeqReturned
    /\ Len(seq.calls) = 7
    /\ seq.calls[7] = "launch_zwift"
    /\ seq.outs[7] = RETURN_FALSE

(* Every stage invoked so far by the canned sequence returned a boolean *)
SeqAllBoolean == \A i \in 1..Len(seq.outs) : seq.outs[i] # RAISE

(* All six gating stages were invoked by the canned sequence and returned true *)
SeqAllGatesTrue ==
    \A g \in GatingStages :
        \E i \in 1..Len(seq.outs) : seq.calls[i] = g /\ seq.outs[i] = RETURN_TRUE

(* C2: for every combination of boolean stage outcomes, full_start_sequence
   returns success = true iff all six gating stages returned true (and success
   is never true otherwise); a non-gating stage that returns true or false
   never stops the sequence (the next stage is invoked, or after the last stage
   the sequence succeeds), so its outcome never changes success. *)
C2_SuccessIffGates ==
    seq.kind = "full_start_sequence" =>
        /\ (SeqReturned /\ SeqAllBoolean) =>
              (seq.results["success"] = TRUE <=> SeqAllGatesTrue)
        /\ seq.results["success"] = TRUE => (SeqReturned /\ SeqAllGatesTrue)
        /\ \A i \in 1..Len(seq.outs) :
              (seq.calls[i] \in NonGatingStages /\ seq.outs[i] # RAISE)
                  => \/ Len(seq.calls) > i
                     \/ seq.pc = "ready"
                     \/ (i = Len(FullStartOrder) /\ SeqReturned
                            /\ seq.results["success"] = TRUE)

C2_Witness ==
    /\ seq.kind = "full_start_sequence"
    /\ SeqReturned
    /\ seq.results["success"] = TRUE
    /\ SeqStageDid(5, RETURN_FALSE)
    /\ SeqStageDid(6, RETURN_FALSE)
    /\ SeqStageDid(8, RETURN_FALSE)
    /\ SeqStageDid(9, RETURN_FALSE)
    /\ SeqStageDid(11, RETURN_FALSE)

(* C3: full_start_sequence invokes its stages in the order wake_pc,
   wait_for_network, wait_for_ssh, wait_for_desktop, stop_sunshine,
   kill_zwift_processes, launch_zwift, activate_zwift_launcher, launch_sauce,
   wait_for_zwift, set_process_priorities: what has been invoked is always a
   prefix of that list (so each stage at most once), at most one stage is in
   flight and every earlier one has returned, and a successful sequence has
   invoked all of them. *)
C3_StageOrder ==
    seq.kind = "full_start_sequence" =>
        /\ IsPrefix(seq.calls, FullStartOrder)
        /\ Len(seq.outs) = (IF seq.pc = "awaiting" THEN Len(seq.calls) - 1
                                                   ELSE Len(seq.calls))
        /\ \A i \in 1..(Len(seq.calls) - 1) : seq.outs[i] = RETURN_TRUE
                                                \/ seq.outs[i] = RETURN_FALSE
        /\ (SeqReturned /\ seq.results["success"]) => seq.calls = FullStartOrder

C3_Witness ==
    /\ seq.kind = "full_start_sequence"
    /\ SeqReturned
    /\ seq.calls = FullStartOrder
    /\ seq.outs = [i \in 1..11 |-> RETURN_TRUE]

(* C4: wake_only_sequence invokes wake_pc, wait_for_network, wait_for_ssh in
   that order and returns success = true iff all three returned true; the first
   stage that returns false stops the sequence, and the result entries of that
   stage and of every later stage are false. *)
C4_WakeOnly ==
    seq.kind = "wake_only_sequence" =>
        /\ IsPrefix(seq.calls, WakeOnlyOrder)
        /\ SeqReturned =>
              (seq.results["success"] = TRUE <=>
                  seq.outs = <<RETURN_TRUE, RETURN_TRUE, RETURN_TRUE>>)
        /\ \A i \in 1..Len(seq.outs) :
              seq.outs[i] = RETURN_FALSE =>
                  /\ Len(seq.calls) = i
                  /\ SeqReturned
                  /\ \A j \in i..Len(WakeOnlyKeys) :
                        seq.results[WakeOnlyKeys[j]] = FALSE

C4_Witness ==
    /\ seq.kind = "wake_only_sequence"
    /\ SeqReturned
    /\ seq.outs = <<RETURN_TRUE, RETURN_FALSE>>
    /\ seq.results["wol_sent"] = TRUE

(* The step in which the stage awaited by the canned sequence raises *)
SeqRaiseStep ==
    /\ seq.pc = "awaiting"
    /\ seq'.outs = Append(seq.outs, RAISE)

(* What the sequence observably does next: where it stands, what it has
   stored, and what it has handed to its caller *)
SeqEffect(s) == <<s.pc, s.idx, s.results, s.ret>>

(* C5 as stated: an exception raised by any stage, gating or not, is not
   propagated and leaves the sequence exactly where that stage returning false
   would have left it. *)
C5_RaiseSameAsFalse ==
    [][SeqRaiseStep =>
          /\ seq'.ret = "results"
          /\ SeqEffect(seq') = SeqEffect(SeqAfterReturn(seq, FALSE))]_vars

(* C5 as amended: an exception raised by any stage is never propagated: the
   sequence stops there, invokes no later stage, and returns the result map as
   built so far, with success = false and no entry for the raising stage set.
   For a gating stage that is the effect of the stage returning false; for a
   non-gating stage it is not, since returning false lets the sequence go on. *)
C5_RaiseStopsSequence ==
    [][SeqRaiseStep =>
          /\ seq'.pc = "done"
          /\ seq'.ret = "results"
          /\ seq'.results = seq.results
          /\ seq'.results["success"] = FALSE
          /\ seq'.calls = seq.calls
          /\ (seq.calls[Len(seq.calls)] \in GatingStages
                 => SeqEffect(seq') = SeqEffect(SeqAfterReturn(seq, FALSE)))
          /\ (seq.calls[Len(seq.calls)] \in NonGatingStages
                 => SeqAfterReturn(seq, FALSE).pc # "done"
                    \/ SeqAfterReturn(seq, FALSE).results["success"] = TRUE)]_vars

C5_Witness ==
    /\ seq.kind = "full_start_sequence"
    /\ SeqReturned
    /\ Len(seq.calls) = 5
    /\ seq.calls[5] = "stop_sunshine"
    /\ seq.outs[5] = RAISE
    /\ seq.results["desktop_loaded"] = TRUE
    /\ seq.results["success"] = FALSE

-----------------------------------------------------------------------------
(* Task lifecycle *)

LegalStatusChange(a, b) ==
    \/ a = b
    \/ a = PENDING /\ b = RUNNING
    \/ a = RUNNING /\ b \in {COMPLETED, FAILED}

(* C6: under any sequence of Task Manager operations a task's status only ever
   changes Pending to Running and Running to Completed or Failed; a Completed
   or Failed task never changes status again. *)
C6_StatusOnlyAdvances ==
    [][\A id \in DOMAIN tasks :
          LegalStatusChange(tasks[id].status, tasks'[id].status)]_vars

(* C7: for every task of the task map, started_at is set iff the status is not
   Pending, completed_at is set iff the status is Completed or Failed, and
   error is set iff the status is Failed. *)
C7_FieldsFollowStatus ==
    \A id \in DOMAIN tasks :
        /\ tasks[id].started_at # None <=> tasks[id].status # PENDING
        /\ tasks[id].completed_at # None <=> tasks[id].status \in {COMPLETED, FAILED}
        /\ tasks[id].error # None <=> tasks[id].status = FAILED

C7_Witness ==
    \E a, b \in DOMAIN tasks :
        /\ tasks[a].status = FAILED
        /\ tasks[a].started_at # None
        /\ tasks[a].completed_at # None
        /\ tasks[a].error # None
        /\ tasks[b].status = RUNNING
        /\ tasks[b].started_at # None
        /\ tasks[b].completed_at = None

(* The error message of each gating stage, and the step under which the
   start / wake endpoints document it *)
GateFailureMessage(stage) ==
    CASE stage = "wake_pc"          -> "Failed to send WoL packet"
      [] stage = "wait_for_network" -> "PC did not respond to network"
      [] stage = "wait_for_ssh"     -> "SSH did not become available"
      [] stage = "wait_for_desktop" -> "Windows desktop did not load"
      [] stage = "launch_zwift"     -> "Failed to launch Zwift"
      [] stage = "wait_for_zwift"   -> "Zwift did not start"

StartStepOf(stage) ==
    CASE stage = "wake_pc"          -> 1
      [] stage = "wait_for_network" -> 2
      [] stage = "wait_for_ssh"     -> 3
      [] stage = "wait_for_desktop" -> 4
      [] stage = "launch_zwift"     -> 6
      [] stage = "wait_for_zwift"   -> 8

WakeStepOf(stage) ==
    CASE stage = "wake_pc"          -> 1
      [] stage = "wait_for_network" -> 2
      [] stage = "wait_for_ssh"     -> 3

(* The stages of run_start_sequence *)
StartRunOrder ==
    <<"wake_pc", "wait_for_network", "wait_for_ssh", "wait_for_desktop",
      "stop_sunshine", "launch_zwift", "activate_zwift_launcher",
      "launch_sauce", "wait_for_zwift", "set_process_priorities">>

(* The last stage invoked by the run r did o *)
RunLastStageDid(r, o) ==
    /\ Len(r.outs) >= 1
    /\ Len(r.outs) = Len(r.calls)
    /\ r.outs[Len(r.outs)] = o

(* C8: in run_start_sequence and run_wake_sequence, when a gating stage has
   returned false the task is Failed with that stage's own error message, the
   run has ended without invoking a later stage, and the task's progress is,
   and stays, the one published for the stage that failed. *)
C8_GateFailureMarksFailed ==
    \A id \in DOMAIN runs :
        LET r == runs[id]
            n == Len(r.outs)
        IN  \A i \in 1..n :
                (r.outs[i] = RETURN_FALSE /\ r.calls[i] \in GatingStages) =>
                    /\ i = n
                    /\ Len(r.calls) = i
                    /\ r.pc = "done"
                    /\ tasks[id].status = FAILED
                    /\ tasks[id].error = Some(GateFailureMessage(r.calls[i]))
                    /\ tasks[id].progress # None
                    /\ tasks[id].progress[1].step_number =
                          (IF r.type = "start" THEN StartStepOf(r.calls[i])
                                               ELSE WakeStepOf(r.calls[i]))
                    /\ tasks[id].progress[1].total_steps =
                          (IF r.type = "start" THEN 9 ELSE 3)

C8_Witness ==
    \E a, b \in DOMAIN runs :
        /\ runs[a].type = "start"
        /\ RunLastStageDid(runs[a], RETURN_FALSE)
        /\ runs[a].calls[Len(runs[a].calls)] = "launch_zwift"
        /\ tasks[a].error = Some("Failed to launch Zwift")
        /\ tasks[a].progress[1].step_number = 6
        /\ runs[b].type = "wake"
        /\ RunLastStageDid(runs[b], RETURN_FALSE)
        /\ runs[b].calls[Len(runs[b].calls)] = "wait_for_network"
        /\ tasks[b].status = FAILED

(* C9: if a stage raises at any point of run_start_sequence or
   run_wake_sequence, the exception does not leave the run, and the task ends
   Failed with completed_at set and the error "Unexpected error: " followed by
   the exception's text. *)
C9_ExceptionMarksFailed ==
    \A id \in DOMAIN runs :
        /\ runs[id].ret # "raised"
        /\ RunLastStageDid(runs[id], RAISE) =>
              /\ runs[id].pc = "done"
              /\ runs[id].ret = "returned"
              /\ runs[id].exc # None
              /\ tasks[id].status = FAILED
              /\ tasks[id].completed_at # None
              /\ tasks[id].error = Some("Unexpected error: " \o runs[id].exc[1])

C9_Witness ==
    \E a, b \in DOMAIN runs :
        /\ runs[a].type = "start"
        /\ RunLastStageDid(runs[a], RAISE)
        /\ runs[a].calls[Len(runs[a].calls)] = "stop_sunshine"
        /\ tasks[a].error = Some("Unexpected error: Connection lost")
        /\ runs[b].type = "wake"
        /\ RunLastStageDid(runs[b], RAISE)
        /\ runs[b].calls[Len(runs[b].calls)] = "wake_pc"
        /\ tasks[b].error = Some("Unexpected error: ")

(* C10: a task run by run_wake_sequence ends Completed iff wake_pc,
   wait_for_network and wait_for_ssh all returned true, and then its progress
   is step 3 of 3 and its error is unset; a task run by run_start_sequence is
   Completed only after all of its stages have been invoked and have returned,
   with progress step 9 of 9. *)
C10_CompletedAfterAllStages ==
    \A id \in DOMAIN runs :
        LET r == runs[id]
            t == tasks[id]
        IN  /\ t.status = COMPLETED => r.pc = "done"
            /\ (r.type = "wake" /\ r.pc = "done") =>
                  (t.status = COMPLETED <=>
                      (r.calls = WakeOnlyOrder
                       /\ r.outs = <<RETURN_TRUE, RETURN_TRUE, RETURN_TRUE>>))
            /\ (r.type = "wake" /\ t.status = COMPLETED) =>
                  /\ t.progress # None
                  /\ t.progress[1].step_number = 3
                  /\ t.progress[1].total_steps = 3
                  /\ t.error = None
            /\ (r.type = "start" /\ t.status = COMPLETED) =>
                  /\ r.calls = StartRunOrder
                  /\ Len(r.outs) = Len(StartRunOrder)
                  /\ \A i \in 1..Len(r.outs) : r.outs[i] # RAISE
                  /\ t.progress # None
                  /\ t.progress[1].step_number = 9
                  /\ t.progress[1].total_steps = 9

C10_Witness ==
    \E a, b \in DOMAIN runs :
        /\ runs[a].type = "wake"
        /\ tasks[a].status = COMPLETED
        /\ tasks[a].progress[1].step_number = 3
        /\ runs[b].type = "start"
        /\ tasks[b].status = COMPLETED
        /\ tasks[b].progress[1].step_number = 9

-----------------------------------------------------------------------------
(* The canned sequence and the run of the same kind *)
KindOfType(task_type) ==
    IF task_type = "start" THEN "full_start_sequence" ELSE "wake_only_sequence"

(* The canned sequence and the first task's run have both ended, and they are
   the two variants of one sequence *)
PairEnded ==
    /\ seq.pc = "done"
    /\ FirstTask \in DOMAIN runs
    /\ runs[FirstTask].pc = "done"
    /\ seq.kind = KindOfType(runs[FirstTask].type)

(* What a stage did in the canned sequence (o) is what it did in the run (q);
   the run keeps no return value of a stage that does not gate *)
SameOutcome(o, q) ==
    IF q = "dropped" THEN o # RAISE ELSE o = q

(* Every stage both variants invoked did the same in both *)
SameStageOutcomes ==
    \A i \in DOMAIN seq.outs, j \in DOMAIN runs[FirstTask].outs :
        seq.calls[i] = runs[FirstTask].calls[j]
            => SameOutcome(seq.outs[i], runs[FirstTask].outs[j])

(* C11: for the same stage outcomes, the run of the TaskManager invokes exactly
   the stages the canned sequence of PCControlService invokes, in the same
   order: run_start_sequence as full_start_sequence, run_wake_sequence as
   wake_only_sequence *)
C11_SameStagesSameOrder ==
    PairEnded /\ SameStageOutcomes => runs[FirstTask].calls = seq.calls

(* The wake half of C11 on its own *)
WakePairSameStages ==
    PairEnded /\ SameStageOutcomes /\ seq.kind = "wake_only_sequence"
        => runs[FirstTask].calls = seq.calls

-----------------------------------------------------------------------------
(* The stage each step label announces *)
StageOfLabel(label) ==
    CASE label = "Sending Wake-on-LAN packet"           -> "wake_pc"
      [] label = "Waiting for PC to respond to network" -> "wait_for_network"
      [] label = "Waiting for SSH to become available"  -> "wait_for_ssh"
      [] label = "Waiting for Windows desktop to load"  -> "wait_for_desktop"
      [] label = "Stopping Sunshine service"            -> "stop_sunshine"
      [] label = "Launching Zwift application"          -> "launch_zwift"
      [] label = "Activating Zwift launcher"            -> "activate_zwift_launcher"
      [] label = "Launching Sauce for Zwift"            -> "launch_sauce"
      [] label = "Waiting for Zwift to start"           -> "wait_for_zwift"
      [] label = "Setting process priorities"           -> "set_process_priorities"
      [] OTHER                                          -> "unknown"

(* C12: every progress record a run publishes has total_steps 9 (start) or 3
   (wake) and a step_number between 1 and total_steps that is not below the
   one published before it in the run; every stage the run invokes is invoked
   right after the progress record naming that stage was published, and the
   task shows that record while the stage is awaited *)
C12_ProgressBeforeStage ==
    [][\A task_id \in DOMAIN runs' :
          LET r == runs'[task_id]
          IN  r.pc = "awaiting"
                => /\ Len(r.log) = 2
                   /\ r.log[1].ev = "update_task_progress"
                   /\ r.log[2].ev = "await"
                   /\ r.log[2].stage = r.calls[Len(r.calls)]
                   /\ StageOfLabel(r.log[1].progress[1].current_step)
                          = r.log[2].stage
                   /\ r.log[1].progress[1].total_steps
                          = (IF r.type = "start" THEN 9 ELSE 3)
                   /\ r.log[1].progress[1].step_number >= 1
                   /\ r.log[1].progress[1].step_number
                          <= r.log[1].progress[1].total_steps
                   /\ tasks'[task_id].progress = r.log[1].progress
                   /\ (task_id \in DOMAIN runs /\ runs[task_id].pc = "awaiting")
                          => runs[task_id].log[1].progress[1].step_number
                                 <= r.log[1].progress[1].step_number]_vars

(* A start run awaits activate_zwift_launcher: step 6 of 9 is published a
   second time, launch_zwift was step 6 too *)
C12_Witness ==
    \E task_id \in DOMAIN runs :
        /\ runs[task_id].type = "start"
        /\ runs[task_id].pc = "awaiting"
        /\ runs[task_id].calls[Len(runs[task_id].calls)] = "activate_zwift_launcher"
        /\ runs[task_id].log[1].progress[1].step_number = 6
        /\ runs[task_id].log[1].progress[1].total_steps = 9
        /\ tasks[task_id].progress[1].current_step = "Activating Zwift launcher"

-----------------------------------------------------------------------------
(* C13: POST start and POST wake each create exactly one new task, schedule
   exactly one background run, for that task's id, and answer 200 with that
   task id while the run has not yet invoked any stage, whatever the host
   does; in every later step the answer stays as it was sent, and a stage that
   failed shows as the task's status Failed *)
C13_PostAnswersBeforeAnyStage ==
    [][/\ DOMAIN http'.post # DOMAIN http.post
          => \E new \in DOMAIN http'.post \ DOMAIN http.post :
                /\ DOMAIN http'.post = DOMAIN http.post \cup {new}
                /\ http'.post[new].status_code = 200
                /\ http'.post[new].task_id = new
                /\ DOMAIN tasks' = DOMAIN tasks \cup {new}
                /\ new \notin DOMAIN tasks
                /\ tasks'[new].status = PENDING
                /\ tasks'[new].task_id = new
                /\ DOMAIN runs' = DOMAIN runs \cup {new}
                /\ new \notin DOMAIN runs
                /\ runs'[new].pc = "scheduled"
                /\ runs'[new].calls = <<>>
                /\ \A other \in DOMAIN tasks : tasks'[other] = tasks[other]
                /\ \A other \in DOMAIN runs : runs'[other] = runs[other]
       /\ DOMAIN tasks' # DOMAIN tasks => DOMAIN http'.post # DOMAIN http.post
       /\ \A task_id \in DOMAIN http.post :
             /\ task_id \in DOMAIN http'.post
             /\ http'.post[task_id] = http.post[task_id]
             /\ http.post[task_id].status_code = 200
             /\ RunLastStageDid(runs'[task_id], RETURN_FALSE)
                   => tasks'[task_id].status = FAILED]_vars

(* A request was answered 200 and, later, the first stage of its run failed *)
C13_Witness ==
    \E task_id \in DOMAIN http.post :
        /\ http.post[task_id].status_code = 200
        /\ http.post[task_id].task_id = task_id
        /\ runs[task_id].calls = <<"wake_pc">>
        /\ runs[task_id].outs = <<RETURN_FALSE>>
        /\ tasks[task_id].status = FAILED

-----------------------------------------------------------------------------
(* The run of type task_type executed alone, in a TaskManager holding no
   other task, up to its first suspension point *)
SoloBegin(task_type) ==
    PublishAndCall(
        mark_task_running(create_task(<<>>, FirstTask, task_type, utcnow),
                          FirstTask, utcnow),
        ScheduledRun(task_type), FirstTask, 1)

(* ... and resumed with the stage outcomes outs, one after the other *)
RECURSIVE SoloResume(_, _, _)
SoloResume(st, outs, exc) ==
    IF outs = <<>> THEN st
    ELSE SoloResume(
            IF Head(outs) = RAISE
            THEN RunOnException(st.tasks, st.run, FirstTask, exc[1], utcnow)
            ELSE RunAfterReturn(st.tasks, st.run, FirstTask,
                                Head(outs) # RETURN_FALSE, utcnow),
            Tail(outs), exc)

(* The task a run with the history of r leaves when it runs alone *)
SoloTask(r) ==
    SoloResume(SoloBegin(r.type), r.outs, r.exc).tasks[FirstTask]

(* C14: when the runs of distinct tasks interleave at their suspension points,
   with create_task and get_task calls in between, a step of one run changes no
   other task's entry, a task's entry changes only when its own run steps, and
   when a run ends its task's status, progress and error are those the run
   produces alone with the same stage outcomes *)
C14_RunsAreIsolated ==
    [][\A task_id \in DOMAIN tasks :
          /\ tasks'[task_id] # tasks[task_id]
                => /\ runs'[task_id] # runs[task_id]
                   /\ \A other \in DOMAIN tasks \ {task_id} :
                         /\ tasks'[other] = tasks[other]
                         /\ runs'[other] = runs[other]
          /\ runs[task_id].pc # "done" /\ runs'[task_id].pc = "done"
                => LET alone == SoloTask(runs'[task_id])
                   IN  /\ tasks'[task_id].status = alone.status
                       /\ tasks'[task_id].progress = alone.progress
                       /\ tasks'[task_id].error = alone.error]_vars

(* Two runs overlap: one is suspended in its second stage while the other has
   gone through three stages and failed; each task shows its own run only *)
C14_Witness ==
    \E a \in DOMAIN runs, b \in DOMAIN runs :
        /\ a # b
        /\ runs[a].pc = "awaiting"
        /\ runs[a].idx = 2
        /\ tasks[a].status = RUNNING
        /\ tasks[a].progress[1].step_number = 2
        /\ runs[b].pc = "done"
        /\ Len(runs[b].calls) = 3
        /\ tasks[b].status = FAILED
        /\ tasks[b].progress[1].step_number = 3

-----------------------------------------------------------------------------
(* The ids create_task has returned so far *)
ReturnedIds == 1..nextId

(* C15: tasks are never removed: every id create_task has returned maps,
   after whatever came later, to the task with that id, which get_task
   returns; and at any moment GET tasks/{id} answers 404 exactly for the ids
   create_task never returned, and otherwise 200 with the task of that id *)
C15_TasksAreNeverRemoved ==
    /\ \A task_id \in ReturnedIds :
          /\ get_task(tasks, task_id) # None
          /\ get_task(tasks, task_id)[1].task_id = task_id
    /\ \A task_id \in TaskIds \cup {UnknownId} :
          LET response == get_task_status(tasks, task_id)
          IN  /\ response.status_code \in {200, 404}
              /\ response.status_code = 404 <=> task_id \notin ReturnedIds
              /\ response.status_code = 200 => response.found = Some(task_id)

(* A second task has been created and the first task's run has ended: GET
   still answers 200 for the first task, and 404 for an id never returned *)
C15_Witness ==
    /\ nextId = 2
    /\ runs[FirstTask].pc = "done"
    /\ tasks[FirstTask].status \in {COMPLETED, FAILED}
    /\ get_task_status(tasks, FirstTask).status_code = 200
    /\ get_task_status(tasks, FirstTask).found = Some(FirstTask)
    /\ get_task_status(tasks, UnknownId).status_code = 404

-----------------------------------------------------------------------------
(* C16: create_task inserts a new Pending task under a fresh id, and what it
   returns is no live link to the stored task: whatever the TaskManager does
   to the stored task later, the returned object still reads as the Pending
   task that was created *)
C16_ReturnedIsDetached ==
    \A task_id \in DOMAIN returned :
        /\ task_id \in DOMAIN tasks
        /\ Deref(tasks, returned[task_id])
               = Task(task_id, PENDING, tasks[task_id].task_type, utcnow)

-----------------------------------------------------------------------------
(* C17: each of the four polling stages always returns, with true or false,
   and never blocks forever, whatever the remote host does: a stage that has
   been called and has not returned can always take its next step *)
C17_PollingStageNeverBlocks ==
    poll.pc \in {"idle", "done"} \/ ENABLED PollStep

-----------------------------------------------------------------------------
(* The three detail checks of check_full_status *)
DetailChecks ==
    {"check_zwift_running", "check_sunshine_status", "check_obs_running"}

(* The probes invoked so far include one of the names *)
Probed(names) == \E i \in DOMAIN chk.probes : chk.probes[i] \in names

(* C18: check_full_status performs the reachability check first, and invokes
   the Zwift, Sunshine and OBS checks only when the PC status is online and
   ssh_available; when either is false none of the three is invoked and the
   zwift, sunshine and obs fields of the result are null *)
C18_DetailsOnlyWhenReachable ==
    chk.op = "check_full_status"
        => /\ chk.probes[1] = "ping_host"
           /\ \A i \in DOMAIN chk.probes :
                 chk.probes[i] \in DetailChecks
                     => /\ i > 1
                        /\ chk.pc_status # None
                        /\ chk.pc_status[1].online
                        /\ chk.pc_status[1].ssh_available
           /\ chk.ret = "returned"
                 => /\ chk.result[1].pc = chk.pc_status[1]
                    /\ ~(chk.result[1].pc.online /\ chk.result[1].pc.ssh_available)
                          => /\ ~Probed(DetailChecks)
                             /\ chk.result[1].zwift = None
                             /\ chk.result[1].sunshine = None
                             /\ chk.result[1].obs = None
                    /\ (chk.result[1].pc.online /\ chk.result[1].pc.ssh_available)
                          => Probed(DetailChecks)

(* check_full_status returned for a host that answers ping but not SSH: no
   detail check was invoked *)
C18_Witness ==
    /\ chk.op = "check_full_status"
    /\ chk.ret = "returned"
    /\ chk.result[1].pc.online
    /\ ~chk.result[1].pc.ssh_available
    /\ chk.probes = <<"ping_host", "is_available">>
    /\ chk.result[1].zwift = None

(* C19: check_pc_online invokes the SSH availability probe only after the
   ping probe succeeded, so every PCStatus it returns satisfies
   ssh_available => online *)
C19_SshOnlyAfterPing ==
    /\ Probed({"is_available"})
          => /\ chk.probes[1] = "ping_host"
             /\ chk.probes[2] = "is_available"
             /\ chk.is_online = Some(TRUE)
    /\ chk.pc_status # None
          => (chk.pc_status[1].ssh_available => chk.pc_status[1].online)
    /\ (chk.op = "check_pc_online" /\ chk.ret = "returned")
          => (chk.result[1].ssh_available => chk.result[1].online)

(* check_pc_online returned without probing SSH, the ping having failed ... *)
C19_Witness ==
    /\ chk.op = "check_pc_online"
    /\ chk.ret = "returned"
    /\ chk.probes = <<"ping_host">>
    /\ ~chk.result[1].online
    /\ ~chk.result[1].ssh_available

(* ... and with SSH probed and available after a successful ping *)
C19_WitnessAvailable ==
    /\ chk.op = "check_pc_online"
    /\ chk.ret = "returned"
    /\ chk.probes = <<"ping_host", "is_available">>
    /\ chk.result[1].online
    /\ chk.result[1].ssh_available

-----------------------------------------------------------------------------
(* check_full_status has returned for a PC that is online with SSH available *)
FullStatusOfReachablePc ==
    /\ chk.op = "check_full_status"
    /\ chk.ret = "returned"
    /\ chk.result[1].pc.online
    /\ chk.result[1].pc.ssh_available

(* C20: in check_full_status, when the PC is online and SSH is available, the
   Zwift, Sunshine and OBS statuses are each computed from their own remote
   check: a check that fails (its remote command raises, or prints what cannot
   be read) yields that status's not-running value and leaves the other two as
   their own checks give them; all three are returned, and check_full_status
   never raises *)
C20_DetailChecksAreIndependent ==
    /\ chk.ret # "raised"
    /\ FullStatusOfReachablePc
          => /\ chk.probes = <<"ping_host", "is_available", "check_zwift_running",
                               "check_sunshine_status", "check_obs_running">>
             /\ Len(chk.replies) = 3
             /\ chk.result[1].zwift # None
             /\ chk.result[1].sunshine # None
             /\ chk.result[1].obs # None
             /\ chk.result[1].zwift = check_process_running(chk.replies[1]).value
             /\ chk.result[1].sunshine = check_sunshine_status(chk.replies[2]).value
             /\ chk.result[1].obs = check_process_running(chk.replies[3]).value
             /\ chk.replies[1].raised => ~chk.result[1].zwift[1].running
             /\ chk.replies[2].raised
                   => /\ ~chk.result[1].sunshine[1].running
                      /\ chk.result[1].sunshine[1].status = Some("Error")
             /\ chk.replies[3].raised => ~chk.result[1].obs[1].running

(* The Zwift check's remote command raised and the OBS check's output was a
   list: both read not running, while Sunshine is reported Running *)
C20_Witness ==
    /\ FullStatusOfReachablePc
    /\ chk.replies[1].raised
    /\ chk.result[1].zwift = Some(ZwiftStatus(FALSE, None))
    /\ chk.result[1].sunshine[1].running
    /\ chk.result[1].sunshine[1].status = Some("Running")
    /\ chk.replies[3].stdout = "[{\"Id\": 4242}, {\"Id\": 4343}]"
    /\ chk.replies[3].rc = 0
    /\ chk.result[1].obs = Some(ZwiftStatus(FALSE, None))

-----------------------------------------------------------------------------
(* Claims about the single-command stages *)

(* The stage call has run to its end *)
StageDone(stage) == call.pc = "done" /\ call.stage = stage

(* The status stop_sunshine / start_sunshine is after *)
TargetStatus(stage) == IF stage = "stop_sunshine" THEN "Stopped" ELSE "Running"

(* The channel delivered what the script itself exited with *)
ScriptDelivered(reply) == ~reply.raised /\ reply.rc # -1

(* C25: stop_sunshine returns true only if the final verification of its
   script read the status Stopped, start_sunshine only if its verification
   read Running; when the verification was not reached (the transition
   failed, the channel broke) or read another status, they return false. *)
C25_TrueOnlyWhenVerified ==
    \A stage \in SunshineStages :
        StageDone(stage) =>
            /\ call.result[1] = Returns(TRUE)
                  => call.verify = Some(TargetStatus(stage))
            /\ call.verify # Some(TargetStatus(stage))
                  => call.result[1] = Returns(FALSE)

(* stop_sunshine stopped a running service, read Stopped and returned true *)
C25_Witness ==
    /\ StageDone("stop_sunshine")
    /\ call.verify = Some("Stopped")
    /\ call.before[1].status = "Running"
    /\ call.result[1] = Returns(TRUE)

(* C26: when the script reports the service as not installed, stop_sunshine
   and start_sunshine return false; and whatever the channel returns or
   raises, neither of them raises. *)
C26_SunshineStagesNeverRaise ==
    \A stage \in SunshineStages :
        StageDone(stage) =>
            /\ ~call.result[1].raised
            /\ call.reply[1].stdout = "Service not found"
                  => call.result[1] = Returns(FALSE)

(* start_sunshine on a PC without the service, and the channel raising *)
C26_Witness ==
    /\ StageDone("start_sunshine")
    /\ ~call.reply[1].raised
    /\ call.reply[1].stdout = "Service not found"
    /\ call.prev # None
    /\ call.prev[1].stage = "stop_sunshine"
    /\ call.prev[1].reply.raised
    /\ call.prev[1].result = Returns(FALSE)

(* C27: stop_sunshine on a service that is already Stopped returns true and
   leaves it Stopped, start_sunshine on a service that is already Running
   returns true and leaves it Running (the channel delivering the script's
   exit); so a second call right after a call that returned true returns the
   same and leaves the same status. *)
C27_AlreadyThereIsSuccess ==
    \A stage \in SunshineStages :
        (StageDone(stage) /\ ScriptDelivered(call.reply[1])) =>
            /\ (call.before[1].installed
                    /\ call.before[1].status = TargetStatus(stage))
                  => /\ call.result[1] = Returns(TRUE)
                     /\ call.after[1].status = TargetStatus(stage)
            /\ (call.prev # None /\ call.prev[1].stage = stage
                    /\ call.prev[1].result = Returns(TRUE))
                  => /\ call.result[1] = call.prev[1].result
                     /\ call.after[1].status = call.prev[1].after[1].status

(* The same for stop_sunshine alone *)
StopAlreadyStoppedIsSuccess ==
    (StageDone("stop_sunshine") /\ ScriptDelivered(call.reply[1])) =>
        /\ (call.before[1].installed /\ call.before[1].status = "Stopped")
              => /\ call.result[1] = Returns(TRUE)
                 /\ call.after[1].status = "Stopped"
        /\ (call.prev # None /\ call.prev[1].stage = "stop_sunshine"
                /\ call.prev[1].result = Returns(TRUE))
              => /\ call.result[1] = call.prev[1].result
                 /\ call.after[1].status = call.prev[1].after[1].status

(* C28: kill_zwift_processes, launch_sauce and set_process_priorities return
   true whatever the channel does: any exit code, any output, an exception;
   none of them raises. *)
BestEffortStages ==
    {"kill_zwift_processes", "launch_sauce", "set_process_priorities"}

C28_BestEffortStagesReturnTrue ==
    \A stage \in BestEffortStages :
        StageDone(stage) => call.result[1] = Returns(TRUE)

(* launch_sauce after a non-zero exit, right after kill_zwift_processes under
   a raising channel *)
C28_Witness ==
    /\ StageDone("launch_sauce")
    /\ ~call.reply[1].raised
    /\ call.reply[1].rc = 1
    /\ call.result[1] = Returns(TRUE)
    /\ call.prev # None
    /\ call.prev[1].stage = "kill_zwift_processes"
    /\ call.prev[1].reply.raised
    /\ call.prev[1].result = Returns(TRUE)

(* C30: shutdown_pc returns false exactly when the channel raises; it returns
   true for every exit code of the shutdown command, and it never raises. *)
C30_ShutdownFalseIffChannelRaises ==
    StageDone("shutdown_pc") =>
        /\ ~call.result[1].raised
        /\ call.result[1] = Returns(FALSE) <=> call.reply[1].raised
        /\ ~call.reply[1].raised => call.result[1] = Returns(TRUE)

(* shutdown_pc returned true although the shutdown command exited non-zero *)
C30_Witness ==
    /\ StageDone("shutdown_pc")
    /\ ~call.reply[1].raised
    /\ call.reply[1].rc = 1
    /\ call.result[1] = Returns(TRUE)

(* The stage a canned sequence that is between two stages will invoke next *)
SeqNextStage ==
    IF seq.pc = "ready" THEN StepsOf(seq.kind)[seq.idx].stage ELSE "none"

(* In the stages invoked (calls) and what they did (outs): activate_zwift_launcher
   did not raise, launch_sauce is the stage invoked after it, launch_sauce did
   not raise either and wait_for_zwift is the stage invoked after that *)
LauncherResultIgnored(calls, outs, next) ==
    \A i \in 1..Len(outs) :
        calls[i] = "activate_zwift_launcher" =>
            /\ outs[i] # RAISE
            /\ IF Len(calls) > i THEN calls[i + 1] = "launch_sauce"
                                 ELSE next = "launch_sauce"
            /\ Len(outs) > i =>
                  /\ outs[i + 1] # RAISE
                  /\ IF Len(calls) > i + 1 THEN calls[i + 2] = "wait_for_zwift"
                                           ELSE next = "wait_for_zwift"

(* C29: activate_zwift_launcher returns false, and does not raise, when the
   remote automation exits non-zero or the channel raises; full_start_sequence
   and run_start_sequence drop its result: whatever it returned, launch_sauce
   and then wait_for_zwift are invoked after it. *)
C29_LauncherFailureIsIgnored ==
    /\ StageDone("activate_zwift_launcher") =>
          /\ ~call.result[1].raised
          /\ (call.reply[1].raised \/ call.reply[1].rc # 0)
                => call.result[1] = Returns(FALSE)
    /\ LauncherResultIgnored(seq.calls, seq.outs, SeqNextStage)
    /\ FirstTask \in DOMAIN runs =>
          LauncherResultIgnored(runs[FirstTask].calls, runs[FirstTask].outs, "none")

(* activate_zwift_launcher has just returned false to the run under a raising
   channel and the run awaits launch_sauce, while the canned sequence, whose
   activate_zwift_launcher returned false too, has got to wait_for_zwift *)
C29_Witness ==
    /\ StageDone("activate_zwift_launcher")
    /\ call.reply[1].raised
    /\ call.result[1] = Returns(FALSE)
    /\ RunAwaited(FirstTask) = "launch_sauce"
    /\ SeqAwaited = "wait_for_zwift"
    /\ seq.outs[8] = RETURN_FALSE

-----------------------------------------------------------------------------
(* Claims about the control router's synchronous endpoints *)

(* How many times the request has awaited operation *)
TimesInvoked(operation) ==
    Cardinality({i \in DOMAIN ctl.invoked : ctl.invoked[i] = operation})

(* The request has been answered *)
Answered(route) == ctl.route = route /\ ctl.pc = "done"

(* C21: POST stop answers 400 and never sends the shutdown command when
   ping_host reports the host unreachable; when the host is reachable it
   answers 500 if shutdown_pc returned false, and it answers success=true only
   if shutdown_pc returned true. *)
C21_StopNeedsReachableHost ==
    ctl.route = "stop" =>
        /\ ctl.is_online = Some(FALSE) =>
              /\ ctl.pc = "done"
              /\ ctl.response[1].status_code = 400
              /\ TimesInvoked("shutdown_pc") = 0
              /\ call.pc = "idle"
        /\ (ctl.pc = "done" /\ ctl.is_online = Some(TRUE)) =>
              /\ ctl.success = Some(FALSE) => ctl.response[1].status_code = 500
              /\ (ctl.response[1].body # None /\ ctl.response[1].body[1].success)
                    => ctl.success = Some(TRUE)

(* The host answered the ping, the channel raised under shutdown_pc, 500 *)
C21_Witness ==
    /\ Answered("stop")
    /\ ctl.is_online = Some(TRUE)
    /\ ctl.success = Some(FALSE)
    /\ ctl.response[1].status_code = 500

(* The host did not answer the ping: 400 *)
C21_WitnessUnreachable ==
    /\ Answered("stop")
    /\ ctl.is_online = Some(FALSE)
    /\ ctl.response[1].status_code = 400

(* C22: POST sunshine/stop and POST sunshine/start answer 503 and never invoke
   stop_sunshine / start_sunshine when the host is not reachable or the SSH
   channel is not available; the service operation is invoked only after
   check_pc_online reported both online and ssh_available. *)
C22_SunshineNeedsOnlineAndSsh ==
    ctl.route \in {"sunshine/stop", "sunshine/start"} =>
        /\ (ctl.pc_status # None
                /\ ~(ctl.pc_status[1].online /\ ctl.pc_status[1].ssh_available)) =>
              /\ ctl.pc = "done"
              /\ ctl.response[1].status_code = 503
              /\ TimesInvoked("stop_sunshine") = 0
              /\ TimesInvoked("start_sunshine") = 0
              /\ call.pc = "idle"
        /\ (TimesInvoked("stop_sunshine") + TimesInvoked("start_sunshine") > 0
                \/ call.pc # "idle") =>
              ctl.pc_status = Some(PCStatus(TRUE, TRUE))

(* POST sunshine/start with the host answering the ping and SSH unavailable *)
C22_Witness ==
    /\ Answered("sunshine/start")
    /\ ctl.pc_status = Some(PCStatus(TRUE, FALSE))
    /\ ctl.response[1].status_code = 503

(* POST sunshine/stop got to invoke stop_sunshine *)
C22_WitnessInvoked ==
    /\ ctl.route = "sunshine/stop"
    /\ call.pc = "execute"
    /\ call.stage = "stop_sunshine"

(* C23: every response of POST sunshine/stop and POST sunshine/start other
   than a 503 carries the success flag together with the current service
   status, when the service operation succeeded and when it failed. *)
C23_StatusInEveryAnswer ==
    \A route \in {"sunshine/stop", "sunshine/start"} :
        (Answered(route) /\ ctl.response[1].status_code # 503) =>
            /\ ctl.response[1].body # None
            /\ ctl.response[1].body[1].success = ctl.success[1]
            /\ ctl.response[1].body[1].service_status # None

(* The part of it that the endpoints keep: the flag always, the status with
   success=true *)
StatusInSuccessfulAnswer ==
    \A route \in {"sunshine/stop", "sunshine/start"} :
        (Answered(route) /\ ctl.response[1].status_code # 503) =>
            /\ ctl.response[1].body # None
            /\ ctl.response[1].body[1].success = ctl.success[1]
            /\ ctl.response[1].body[1].success
                  => ctl.response[1].body[1].service_status = ctl.service_status

(* What the first status check of the request read on the PC *)
ToggleFound(status) ==
    /\ Len(ctl.replies) >= 1
    /\ ~ctl.replies[1].raised
    /\ ctl.replies[1].rc = 0
    /\ json_loads(ctl.replies[1].stdout).Status = Some(status)

(* C24: POST sunshine/toggle, with the host online and SSH available, invokes
   stop_sunshine exactly once (and start_sunshine not at all) when the service
   is found Running, and start_sunshine exactly once (and stop_sunshine not at
   all) when it is found Stopped, and answers with the success flag of that
   operation and the service status read after it; it answers 503, invoking
   neither, when the host is offline or SSH is unavailable. *)
C24_ToggleInvokesTheOpposite ==
    ctl.route = "sunshine/toggle" =>
        /\ (ctl.pc_status # None
                /\ ~(ctl.pc_status[1].online /\ ctl.pc_status[1].ssh_available)) =>
              /\ ctl.pc = "done"
              /\ ctl.response[1].status_code = 503
              /\ TimesInvoked("stop_sunshine") + TimesInvoked("start_sunshine") = 0
        /\ (ctl.pc = "done" /\ ctl.pc_status = Some(PCStatus(TRUE, TRUE))) =>
              /\ ToggleFound("Running") =>
                    /\ TimesInvoked("stop_sunshine") = 1
                    /\ TimesInvoked("start_sunshine") = 0
              /\ ToggleFound("Stopped") =>
                    /\ TimesInvoked("start_sunshine") = 1
                    /\ TimesInvoked("stop_sunshine") = 0
              /\ ctl.response[1].status_code = 200
              /\ ctl.response[1].body[1].success = ctl.success[1]
              /\ ctl.response[1].body[1].service_status
                    = Some(check_sunshine_status(ctl.replies[2]).value[1])

(* The service was found Running, stop_sunshine stopped it, and the answer
   carries success=true and the status Stopped read afterwards *)
C24_Witness ==
    /\ Answered("sunshine/toggle")
    /\ ToggleFound("Running")
    /\ ctl.invoked = <<"check_pc_online", "check_sunshine_status",
                       "stop_sunshine", "check_sunshine_status">>
    /\ ctl.response[1].body[1].success
    /\ ctl.response[1].body[1].service_status
          = Some(ServiceStatus("SunshineService", FALSE, Some("Stopped")))

(* The service was found Stopped and start_sunshine was invoked *)
C24_WitnessStart ==
    /\ Answered("sunshine/toggle")
    /\ ToggleFound("Stopped")
    /\ TimesInvoked("start_sunshine") = 1
    /\ ctl.response[1].body[1].service_status
          = Some(ServiceStatus("SunshineService", TRUE, Some("Running")))

-----------------------------------------------------------------------------
(* Claims about the polling stages, one by one *)

(* The probes of the stage called that have come back *)
ProbesBack == {i \in DOMAIN poll.probes : poll.probes[i].reply # None}

(* The remote check of probe i exited 0 with a non-empty output *)
CheckPositive(i) ==
    LET reply == poll.probes[i].reply[1]
    IN  ~reply.raised /\ reply.rc = 0 /\ reply.stdout # ""

(* ping_host's ping exited 0 in probe i; is_available's connection and its
   "echo test" went through without an exception in probe i *)
PingAnswered(i) ==
    LET reply == poll.probes[i].reply[1]
    IN  ~reply.raised /\ reply.rc = 0

SshAnswered(i) == ~poll.probes[i].reply[1].raised

(* C31: in wait_for_desktop and wait_for_zwift an attempt whose remote call
   raised or whose check was negative does not end the stage: it sleeps the
   interval and polls again while the deadline has not passed; every attempt
   starts before the deadline; the stage returns true at the first attempt
   whose check exits 0 with non-empty output, and false only when no attempt
   succeeded. *)
C31_FailedAttemptKeepsPolling ==
    poll.stage \in {"wait_for_desktop", "wait_for_zwift"} =>
        /\ \A i \in DOMAIN poll.probes : poll.probes[i].at < poll.timeout
        /\ \A i \in ProbesBack :
              ~CheckPositive(i) =>
                  IF i < Len(poll.probes)
                  THEN poll.probes[i + 1].at >= poll.probes[i].at + CheckInterval
                  ELSE \/ poll.pc = "sleeping"
                       \/ poll.pc = "done" /\ poll.elapsed >= poll.timeout
        /\ \A i \in ProbesBack :
              CheckPositive(i) =>
                  /\ i = Len(poll.probes)
                  /\ poll.pc = "done"
                  /\ poll.ret = RETURN_TRUE
        /\ poll.pc = "done" =>
              /\ poll.ret \in {RETURN_TRUE, RETURN_FALSE}
              /\ poll.ret = RETURN_FALSE <=> \A i \in ProbesBack : ~CheckPositive(i)

(* wait_for_desktop returned true at its second attempt, the remote call of
   the first having raised *)
C31_Witness ==
    /\ poll.stage = "wait_for_desktop"
    /\ poll.pc = "done"
    /\ poll.ret = RETURN_TRUE
    /\ Len(poll.probes) = 2
    /\ poll.probes[1].reply[1].raised
    /\ CheckPositive(2)

(* wait_for_zwift returned true at its second attempt, the first check having
   exited 0 with nothing on its output *)
C31_WitnessNegative ==
    /\ poll.stage = "wait_for_zwift"
    /\ poll.pc = "done"
    /\ poll.ret = RETURN_TRUE
    /\ Len(poll.probes) = 2
    /\ ~poll.probes[1].reply[1].raised
    /\ poll.probes[1].reply[1].rc = 0
    /\ poll.probes[1].reply[1].stdout = ""

(* C32: wait_for_ping and wait_for_availability return true exactly when one
   of their probes succeeded, and start no probe after the first success;
   they return false only when no probe succeeded, every probe having started
   before the deadline; they do not raise, and with a positive timeout they
   make at least one probe. *)
C32_TrueIffAProbeSucceeded ==
    /\ poll.stage = "wait_for_network" =>
          /\ \A i \in ProbesBack :
                PingAnswered(i) => i = Len(poll.probes) /\ poll.pc = "done"
          /\ poll.pc = "done" =>
                /\ poll.ret \in {RETURN_TRUE, RETURN_FALSE}
                /\ poll.ret = RETURN_TRUE <=> \E i \in ProbesBack : PingAnswered(i)
    /\ poll.stage = "wait_for_ssh" =>
          /\ \A i \in ProbesBack :
                SshAnswered(i) => i = Len(poll.probes) /\ poll.pc = "done"
          /\ poll.pc = "done" =>
                /\ poll.ret \in {RETURN_TRUE, RETURN_FALSE}
                /\ poll.ret = RETURN_TRUE <=> \E i \in ProbesBack : SshAnswered(i)
    /\ poll.stage \in {"wait_for_network", "wait_for_ssh"} =>
          /\ \A i \in DOMAIN poll.probes : poll.probes[i].at < poll.timeout
          /\ poll.timeout > 0 => Len(poll.probes) >= 1

(* wait_for_ping returned true at its second probe, the first ping having
   exited non-zero *)
C32_Witness ==
    /\ poll.stage = "wait_for_network"
    /\ poll.pc = "done"
    /\ poll.ret = RETURN_TRUE
    /\ Len(poll.probes) = 2
    /\ ~poll.probes[1].reply[1].raised
    /\ poll.probes[1].reply[1].rc = 1

(* wait_for_availability returned false: its only probe raised and the
   deadline passed *)
C32_WitnessFalse ==
    /\ poll.stage = "wait_for_ssh"
    /\ poll.pc = "done"
    /\ poll.ret = RETURN_FALSE
    /\ Len(poll.probes) >= 1

-----------------------------------------------------------------------------
(* C33: check_sunshine_status does not raise; it reports running=true only
   when the status parsed from the remote answer is exactly "Running"; when
   the channel raises it reports the status "Error", and when the answer is
   empty, comes with a non-zero exit code or cannot be parsed it reports the
   status "Unknown", with running=false in both cases. *)
C33_SunshineStatusReport ==
    Len(chk.replies) >= 2 =>
        LET reply == chk.replies[2]
        IN  /\ chk.sunshine # None
            /\ chk.sunshine[1].name = "SunshineService"
            /\ chk.sunshine[1].running =>
                  /\ ~reply.raised
                  /\ reply.rc = 0
                  /\ reply.stdout = "{\"Status\": \"Running\"}"
                  /\ chk.sunshine[1].status = Some("Running")
            /\ reply.raised =>
                  /\ chk.sunshine[1].status = Some("Error")
                  /\ ~chk.sunshine[1].running
            /\ (~reply.raised
                    /\ (reply.stdout = "" \/ reply.rc # 0
                            \/ ~json_loads(reply.stdout).ok)) =>
                  /\ chk.sunshine[1].status = Some("Unknown")
                  /\ ~chk.sunshine[1].running

(* The remote command exited 0 with a text that is no JSON: Unknown *)
C33_Witness ==
    /\ Len(chk.replies) >= 2
    /\ ~chk.replies[2].raised
    /\ chk.replies[2].rc = 0
    /\ chk.replies[2].stdout = "Access is denied"
    /\ chk.sunshine = Some(ServiceStatus("SunshineService", FALSE, Some("Unknown")))

(* The service is reported running *)
C33_WitnessRunning ==
    /\ Len(chk.replies) >= 2
    /\ chk.sunshine = Some(ServiceStatus("SunshineService", TRUE, Some("Running")))

-----------------------------------------------------------------------------
(* C34: for the same stage outcomes the two implementations of a sequence end
   alike: the task run by run_start_sequence ends Completed if and only if
   full_start_sequence returns success=true, and the task run by
   run_wake_sequence ends Completed if and only if wake_only_sequence returns
   success=true. *)
C34_SameOutcomeInBothVariants ==
    (PairEnded /\ SameStageOutcomes) =>
        (tasks[FirstTask].status = COMPLETED <=> seq.results["success"])

(* full_start_sequence returned success=true and the start task is Completed *)
C34_Witness ==
    /\ PairEnded
    /\ SameStageOutcomes
    /\ seq.kind = "full_start_sequence"
    /\ seq.results["success"]
    /\ tasks[FirstTask].status = COMPLETED

(* Both variants of the start sequence stopped at launch_zwift *)
C34_WitnessFailed ==
    /\ PairEnded
    /\ SameStageOutcomes
    /\ seq.kind = "full_start_sequence"
    /\ ~seq.results["zwift_launched"]
    /\ seq.results["desktop_loaded"]
    /\ tasks[FirstTask].status = FAILED

-----------------------------------------------------------------------------
(* The terminal statuses *)
TerminalStatuses == {COMPLETED, FAILED}

(* One step of the life of task id under its background run, from the task
   and run before the step (t, r) to the task and run after it (t2, r2) *)
RunLifecycleStep(t, r, t2, r2) ==
    (* nothing is written before the run starts *)
    /\ r.pc = "scheduled" =>
          /\ t = Task(t.task_id, PENDING, r.type, utcnow)
          /\ r.calls = <<>>
    (* the start of the run marks the task Running, and only it does *)
    /\ (r.pc = "scheduled" /\ r2.pc # "scheduled") =>
          /\ t2.status = RUNNING
          /\ t2.started_at # None
    /\ (t.status # RUNNING /\ t2.status = RUNNING) =>
          (r.pc = "scheduled" /\ t.status = PENDING)
    /\ t2.started_at # t.started_at => r.pc = "scheduled"
    (* the status moves to a terminal one only from Running, in the step
       that ends the run, and that step writes no progress *)
    /\ (t.status \notin TerminalStatuses /\ t2.status \in TerminalStatuses) =>
          /\ t.status = RUNNING
          /\ r.pc = "awaiting"
          /\ r2.pc = "done"
          /\ r2.calls = r.calls
          /\ t2.progress = t.progress
          /\ t2.started_at = t.started_at
          /\ t2.completed_at # None
    /\ (r.pc # "done" /\ r2.pc = "done") => t2.status \in TerminalStatuses
    (* after the terminal marking the task is not written and no stage is
       invoked *)
    /\ t.status \in TerminalStatuses =>
          /\ t2 = t
          /\ r.pc = "done"
          /\ r2 = r

(* C35: within one execution of run_start_sequence or run_wake_sequence on a
   Pending task the task is marked Running exactly once, as the first change,
   and marked Completed or Failed exactly once, as the last change: after the
   terminal marking no stage is invoked and no progress, status, error or
   timestamp of the task is written. *)
C35_RunningFirstTerminalLast ==
    [][\A id \in DOMAIN runs :
          RunLifecycleStep(tasks[id], runs[id], tasks'[id], runs'[id])]_vars

(* A run has ended Failed at a gate before its last stage and another run has
   ended Completed, while the tasks keep what the terminal marking left *)
C35_Witness ==
    \E a, b \in DOMAIN runs :
        /\ runs[a].pc = "done"
        /\ tasks[a].status = FAILED
        /\ Len(runs[a].calls) < Len(RunStepsOf(runs[a].type))
        /\ tasks[a].progress[1].step_number = runs[a].idx
        /\ runs[b].pc = "done"
        /\ tasks[b].status = COMPLETED
        /\ tasks[b].started_at # None
        /\ tasks[b].completed_at # None

-----------------------------------------------------------------------------
(* What a reader gets for task id from get_task, at whatever point between
   two steps of the runs it is served *)
Observed(id) == get_task(tasks, id)[1]

(* C36: at every point where a reader can observe a task driven only by
   run_start_sequence / run_wake_sequence, the task has no progress if and only
   if its status is Pending: a Running, Completed or Failed task is never seen
   without progress, and a Failed task is never seen without an error. *)
C36_ReaderSeesProgressUnlessPending ==
    \A id \in DOMAIN tasks :
        /\ get_task(tasks, id) # None
        /\ get_task_status(tasks, id).status_code = 200
        /\ Observed(id).progress = None <=> Observed(id).status = PENDING
        /\ Observed(id).status = FAILED => Observed(id).error # None

(* A reader sees one task still Pending without progress, next to a task whose
   run is suspended in its first stage, Running with the progress of step 1 *)
C36_Witness ==
    \E a, b \in DOMAIN tasks :
        /\ runs[a].pc = "scheduled"
        /\ Observed(a).status = PENDING
        /\ Observed(a).progress = None
        /\ runs[b].pc = "awaiting"
        /\ runs[b].outs = <<>>
        /\ Observed(b).status = RUNNING
        /\ Observed(b).progress # None
        /\ Observed(b).progress[1].step_number = 1

(* A reader sees a task Failed at its first gate, with progress and error *)
C36_WitnessFailed ==
    \E a \in DOMAIN tasks :
        /\ Observed(a).status = FAILED
        /\ Len(runs[a].calls) = 1
        /\ Observed(a).progress # None
        /\ Observed(a).error # None

-----------------------------------------------------------------------------
(* The entries of a result map that can be true only if an earlier entry is:
   <<entry, the entry it needs>> *)
FullStartNeeds ==
    { <<"network_available", "wol_sent">>,
      <<"ssh_available", "network_available">>,
      <<"desktop_loaded", "ssh_available">>,
      <<"sunshine_stopped", "desktop_loaded">>,
      <<"zwift_killed", "desktop_loaded">>,
      <<"zwift_launched", "desktop_loaded">>,
      <<"sauce_launched", "zwift_launched">>,
      <<"zwift_running", "zwift_launched">>,
      <<"priorities_set", "zwift_running">> }

WakeOnlyNeeds ==
    { <<"network_available", "wol_sent">>,
      <<"ssh_available", "network_available">> }

(* The sequence has returned its result map to the caller *)
SeqReturnedResults == seq.pc = "done" /\ seq.ret = "results"

(* C38: in every result map returned by full_start_sequence or
   wake_only_sequence an entry is true only if the entries of the gating stages
   before it are true: network_available needs wol_sent, ssh_available needs
   network_available, desktop_loaded needs ssh_available; sunshine_stopped,
   zwift_killed and zwift_launched need desktop_loaded; sauce_launched and
   zwift_running need zwift_launched; priorities_set needs zwift_running. *)
C38_TrueEntriesNeedEarlierGates ==
    SeqReturnedResults =>
        /\ seq.kind = "full_start_sequence" =>
              \A n \in FullStartNeeds :
                  seq.results[n[1]] => seq.results[n[2]]
        /\ seq.kind = "wake_only_sequence" =>
              \A n \in WakeOnlyNeeds :
                  seq.results[n[1]] => seq.results[n[2]]

(* full_start_sequence returned after wait_for_zwift said no: everything up to
   sauce_launched is true, zwift_running and priorities_set are not *)
C38_Witness ==
    /\ SeqReturnedResults
    /\ seq.kind = "full_start_sequence"
    /\ seq.results["desktop_loaded"]
    /\ seq.results["sunshine_stopped"]
    /\ seq.results["zwift_killed"]
    /\ seq.results["zwift_launched"]
    /\ seq.results["sauce_launched"]
    /\ ~seq.results["zwift_running"]
    /\ ~seq.results["priorities_set"]

(* wake_only_sequence returned after a stage raised behind a true wol_sent *)
C38_WitnessWake ==
    /\ SeqReturnedResults
    /\ seq.kind = "wake_only_sequence"
    /\ seq.results["wol_sent"]
    /\ ~seq.results["network_available"]
    /\ seq.outs[Len(seq.outs)] = RAISE

-----------------------------------------------------------------------------
(* The background run of task id has been started *)
RunStarted(id) == id \in DOMAIN runs /\ runs[id].pc # "scheduled"

(* C37: provided every stage invocation eventually returns or raises, every
   task whose background run has been started eventually reaches Completed or
   Failed, so a caller polling the task eventually observes a terminal
   status. *)
C37_StartedRunEventuallyEnds ==
    \A id \in TaskIds :
        RunStarted(id) ~>
            (/\ get_task(tasks, id) # None
             /\ get_task(tasks, id)[1].status \in TerminalStatuses)

(* The start run went through all its stages up to the last one, which raised,
   its task ended Failed and the polling caller has been answered with it *)
C37_Witness ==
    /\ RunStarted(FirstTask)
    /\ runs[FirstTask].type = "start"
    /\ runs[FirstTask].pc = "done"
    /\ runs[FirstTask].calls = StartRunOrder
    /\ runs[FirstTask].outs[Len(runs[FirstTask].outs)] = RAISE
    /\ tasks[FirstTask].status = FAILED
    /\ http.get = Some(get_task_status(tasks, FirstTask))

(* The wake run is suspended in its second stage, its task Running *)
C37_WitnessRunning ==
    /\ RunStarted(FirstTask)
    /\ runs[FirstTask].type = "wake"
    /\ runs[FirstTask].pc = "awaiting"
    /\ runs[FirstTask].idx = 2
    /\ tasks[FirstTask].status = RUNNING

====
